---- MODULE Spec2Model ----
(***************************************************************************)
(* A model of the worksheet row/cell reconciliation, the coordinate codec  *)
(* and the streaming row writer of the excelize package.                   *)
(*                                                                         *)
(* Strings are sequences of one-character strings, so that the codec is    *)
(* computed character by character as the Go code computes it.             *)
(***************************************************************************)
EXTENDS Integers, Sequences, FiniteSets, TLC

\* the element of a one-element set; {e : x \in {d}} names the value d in e
The(S) == CHOOSE x \in S : TRUE

(***************************************************************************)
(* Limits of the file format.  They are used by lib.go and the stream      *)
(* writer and are declared in a file of the package that is not part of    *)
(* src/; the values are those of the format (XFD = 16384, 2^20 rows).      *)
(***************************************************************************)
MinColumns == 1
MaxColumns == 16384
TotalRows == 1048576
MaxRowHeight == 409
MaxColumnWidth == 255

(***************************************************************************)
(* Characters.                                                             *)
(***************************************************************************)
UpperSeq == <<"A","B","C","D","E","F","G","H","I","J","K","L","M",
              "N","O","P","Q","R","S","T","U","V","W","X","Y","Z">>
LowerSeq == <<"a","b","c","d","e","f","g","h","i","j","k","l","m",
              "n","o","p","q","r","s","t","u","v","w","x","y","z">>
DigitSeq == <<"0","1","2","3","4","5","6","7","8","9">>

IsUpper(c) == \E i \in 1..26 : UpperSeq[i] = c
IsLower(c) == \E i \in 1..26 : LowerSeq[i] = c
IsDigit(c) == \E i \in 1..10 : DigitSeq[i] = c
\* int(r-'A'+1), resp. int(r-'a'+1)
LetterVal(c) == CHOOSE i \in 1..26 : UpperSeq[i] = c \/ LowerSeq[i] = c
DigitVal(c) == (CHOOSE i \in 1..10 : DigitSeq[i] = c) - 1

\* the predicate alpha of SplitCellName: a letter or '$' (rune 36)
alpha(c) == IsUpper(c) \/ IsLower(c) \/ c = "$"

\* strings.IndexFunc / strings.LastIndexFunc with alpha, 0-based, -1 if none
IndexFuncAlpha(s) ==
    IF \E i \in 1..Len(s) : alpha(s[i])
    THEN (CHOOSE i \in 1..Len(s) : alpha(s[i]) /\ \A j \in 1..(i-1) : ~alpha(s[j])) - 1
    ELSE -1
LastIndexFuncAlpha(s) ==
    IF \E i \in 1..Len(s) : alpha(s[i])
    THEN (CHOOSE i \in 1..Len(s) : alpha(s[i]) /\ \A j \in (i+1)..Len(s) : ~alpha(s[j])) - 1
    ELSE -1

\* strings.ReplaceAll(s, "$", "")
KeepDollar(s) == s
RECURSIVE StripDollar(_)
StripDollar(s) ==
    IF s = <<>> THEN <<>>
    ELSE IF Head(s) = "$" THEN StripDollar(Tail(s))
         ELSE <<Head(s)>> \o StripDollar(Tail(s))

\* the decimal value of a string of digits
RECURSIVE DigitsVal(_)
DigitsVal(s) ==
    IF s = <<>> THEN 0
    ELSE 10 * DigitsVal(SubSeq(s, 1, Len(s) - 1)) + DigitVal(s[Len(s)])

\* Go's int has 64 bits; the integers of the model have 32, and the ends of
\* their range stand for every int beyond them, which keeps the order of an
\* int with each limit of the file format
IntBits == 64
MaxModelInt == 2147483647
MinModelInt == 0 - MaxModelInt

\* a string of digits without its leading zeros
RECURSIVE Significant(_)
Significant(s) ==
    IF s = <<>> \/ Head(s) # "0" THEN s ELSE Significant(Tail(s))

\* whether the number a is greater than the number b, for strings of digits
\* of one length
RECURSIVE DigitsGreater(_, _)
DigitsGreater(a, b) ==
    IF a = <<>> THEN FALSE
    ELSE IF Head(a) # Head(b) THEN DigitVal(Head(a)) > DigitVal(Head(b))
         ELSE DigitsGreater(Tail(a), Tail(b))

\* 2^63 - 1 and 2^63, the largest magnitudes of a positive and a negative int
MaxInt64Digits == <<"9","2","2","3","3","7","2","0","3","6","8","5","4","7","7","5","8","0","7">>
MinInt64Digits == <<"9","2","2","3","3","7","2","0","3","6","8","5","4","7","7","5","8","0","8">>

\* strconv.Atoi: an optional sign, then at least one digit and only digits;
\* a value that an int cannot hold is a range error
Atoi(s) ==
    LET signed == s # <<>> /\ Head(s) \in {"+", "-"}
        neg    == signed /\ Head(s) = "-"
        body   == IF signed THEN Tail(s) ELSE s
    IN  IF body = <<>> \/ \E i \in 1..Len(body) : ~IsDigit(body[i])
        THEN [ok |-> FALSE, val |-> 0]
        ELSE LET sig == Significant(body)
                 lim == IF neg THEN MinInt64Digits ELSE MaxInt64Digits
                 mag == IF Len(sig) > 9 THEN MaxModelInt ELSE DigitsVal(sig)
             IN  IF Len(sig) > Len(lim)
                    \/ (Len(sig) = Len(lim) /\ DigitsGreater(sig, lim))
                 THEN [ok |-> FALSE, val |-> 0]
                 ELSE [ok |-> TRUE, val |-> IF neg THEN 0 - mag ELSE mag]

\* strconv.Itoa for n >= 0
RECURSIVE Itoa(_)
Itoa(n) ==
    IF n < 10 THEN <<DigitSeq[n + 1]>>
    ELSE Itoa(n \div 10) \o <<DigitSeq[(n % 10) + 1]>>

(***************************************************************************)
(* The coordinate codec of lib.go.  A result is a record whose field err   *)
(* is "" on success and the kind of the error otherwise; bad is the string *)
(* the error message quotes.                                               *)
(***************************************************************************)
SplitCellName(cell) ==
    LET i == LastIndexFuncAlpha(cell)
        fail == [col |-> <<>>, row |-> -1, err |-> "InvalidCellName", bad |-> cell]
    IN  IF IndexFuncAlpha(cell) = 0 /\ i >= 0 /\ i < Len(cell) - 1
        THEN LET col == StripDollar(SubSeq(cell, 1, i + 1))
                 a   == Atoi(SubSeq(cell, i + 2, Len(cell)))
             IN  IF a.ok /\ a.val > 0
                 THEN [col |-> col, row |-> a.val, err |-> "", bad |-> <<>>]
                 ELSE fail
        ELSE fail

\* the loop of ColumnNameToNumber from the last character to the first:
\* the accumulated col, or -1 when a character is not a letter
RECURSIVE ColumnAcc(_)
ColumnAcc(name) ==
    IF name = <<>> THEN 0
    ELSE LET r    == name[Len(name)]
             rest == ColumnAcc(SubSeq(name, 1, Len(name) - 1))
         IN  IF ~(IsUpper(r) \/ IsLower(r)) \/ rest = -1 THEN -1
             ELSE LetterVal(r) + 26 * rest

\* An int as IntBits \div LimbBits limbs of LimbBits bits, the least one
\* first, in two's complement: the arithmetic of col and multi, which wraps.
LimbBits == 16
Limb == 2^LimbBits
NumLimbs == IntBits \div LimbBits

\* the int n, for 0 <= n <= MaxModelInt
Wide(n) ==
    [i \in 1..NumLimbs |-> IF i = 1 THEN n % Limb
                           ELSE IF i = 2 THEN n \div Limb ELSE 0]

\* w * k + carry for a small k, and a + b + carry, without the bits beyond
\* the width
RECURSIVE WideMul(_, _, _)
WideMul(w, k, carry) ==
    IF w = <<>> THEN <<>>
    ELSE The({ <<t % Limb>> \o WideMul(Tail(w), k, t \div Limb) :
               t \in {Head(w) * k + carry} })
RECURSIVE WideAdd(_, _, _)
WideAdd(a, b, carry) ==
    IF a = <<>> THEN <<>>
    ELSE The({ <<t % Limb>> \o WideAdd(Tail(a), Tail(b), t \div Limb) :
               t \in {Head(a) + Head(b) + carry} })

WideIsNegative(w) == w[NumLimbs] >= Limb \div 2
\* -w
WideNeg(w) == WideAdd([i \in 1..NumLimbs |-> Limb - 1 - w[i]], Wide(1), 0)
\* whether the magnitude w is at most MaxModelInt
WideIsSmall(w) ==
    /\ \A i \in 3..NumLimbs : w[i] = 0
    /\ w[2] < Limb \div 2
WideLow(w) == w[1] + Limb * w[2]

\* the int w as an integer of the model
GoInt(w) ==
    IF WideIsNegative(w)
    THEN The({ IF WideIsSmall(m) THEN 0 - WideLow(m) ELSE MinModelInt :
               m \in {WideNeg(w)} })
    ELSE IF WideIsSmall(w) THEN WideLow(w) ELSE MaxModelInt

\* the loop of ColumnNameToNumber over the letters name[1..i], from the last
\* to the first: col += int(r-'A'+1) * multi; multi *= 26
RECURSIVE ColumnLoop(_, _, _, _)
ColumnLoop(name, i, col, multi) ==
    IF i = 0 THEN col
    ELSE ColumnLoop(name, i - 1,
                    WideAdd(col, WideMul(multi, LetterVal(name[i]), 0), 0),
                    WideMul(multi, 26, 0))

\* a name of at most ExactLetters letters stays below 2^31, where ColumnAcc
\* is the value of col; a longer one takes the arithmetic of the int
ExactLetters == 6
ColumnOf(name) ==
    IF Len(name) <= ExactLetters THEN ColumnAcc(name)
    ELSE GoInt(ColumnLoop(name, Len(name), Wide(0), Wide(1)))

ColumnNameToNumber(name) ==
    IF Len(name) = 0 \/ \E i \in 1..Len(name) : ~(IsUpper(name[i]) \/ IsLower(name[i]))
    THEN [col |-> -1, err |-> "InvalidColumnName", bad |-> name]
    ELSE The({ IF col > MaxColumns
               THEN [col |-> -1, err |-> "ErrColumnNumber", bad |-> <<>>]
               ELSE [col |-> col, err |-> "", bad |-> <<>>] :
               col \in {ColumnOf(name)} })

\* the letters of num in plain base 26, with A for the digit 0
RECURSIVE ColumnLettersPlain(_)
ColumnLettersPlain(num) ==
    IF num <= 0 THEN <<>>
    ELSE ColumnLettersPlain(num \div 26) \o <<UpperSeq[(num % 26) + 1]>>
\* the loop of ColumnNumberToName: col = string(rune((num-1)%26+65)) + col
RECURSIVE ColumnLetters(_)
ColumnLetters(num) ==
    IF num <= 0 THEN <<>>
    ELSE ColumnLetters((num - 1) \div 26) \o <<UpperSeq[((num - 1) % 26) + 1]>>

ColumnNumberToName(num) ==
    IF num < MinColumns \/ num > MaxColumns
    THEN [name |-> <<>>, err |-> "ErrColumnNumber"]
    ELSE [name |-> ColumnLetters(num), err |-> ""]

CellNameToCoordinates(cell) ==
    LET s == SplitCellName(cell)
    IN  IF s.err # ""
        THEN [col |-> -1, row |-> -1, err |-> "CellNameToCoordinates", bad |-> cell]
        ELSE IF s.row > TotalRows
             THEN [col |-> -1, row |-> -1, err |-> "ErrMaxRows", bad |-> <<>>]
             ELSE LET c == ColumnNameToNumber(s.col)
                  IN  [col |-> c.col, row |-> s.row, err |-> c.err, bad |-> c.bad]

CoordinatesToCellName(col, row, abs) ==
    IF col < 1 \/ row < 1
    THEN [name |-> <<>>, err |-> "CoordinatesToCellName"]
    ELSE IF row > TotalRows
         THEN [name |-> <<>>, err |-> "ErrMaxRows"]
         ELSE LET sign == IF abs THEN <<"$">> ELSE <<>>
                  c    == ColumnNumberToName(col)
              IN  [name |-> sign \o c.name \o sign \o Itoa(row), err |-> c.err]

(***************************************************************************)
(* Worksheet data.  A cell is an xlsxC (reference, value, type, formula,   *)
(* style), a row an xlsxRow (number r and cells).  xlsxC{} and xlsxRow{}   *)
(* are the zero values Go allocates.                                       *)
(***************************************************************************)
EmptyCell == [R |-> <<>>, V |-> "", T |-> "", F |-> "", S |-> 0]
ZeroRow == [R |-> 0, C |-> <<>>]

\* xlsxC.hasValue is declared outside src/: "any of value/formula/type present"
hasValue(c) == c.V # "" \/ c.F # "" \/ c.T # ""

(***************************************************************************)
(* checkSheet / SRcheckSheet (the two functions have the same body).       *)
(***************************************************************************)
\* the row set aside as r0 and the list left in ws.SheetData.Row
OverlayRow(rows) == IF Len(rows) > 0 /\ rows[1].R = 0 THEN rows[1] ELSE ZeroRow
WorkRowsKeepsOverlay(rows) == rows
WorkRows(rows) == IF Len(rows) > 0 /\ rows[1].R = 0 THEN Tail(rows) ELSE rows

\* first loop: it ranges over the list as it was on entry, from index i on
RECURSIVE CountRows(_, _, _)
CountRows(rows, i, row) ==
    IF i > Len(rows) THEN row
    ELSE LET r == rows[i]
         IN  IF i = 1 /\ r.R = 0 THEN CountRows(rows, i + 1, row)
             ELSE IF r.R # 0 /\ r.R > row THEN CountRows(rows, i + 1, r.R)
             ELSE IF r.R # row THEN CountRows(rows, i + 1, row + 1)
             ELSE CountRows(rows, i + 1, row)

\* one iteration of the second loop; st = [row, data, panic], and an index
\* outside data is Go's run-time panic "index out of range"
PlaceRow(st, r) ==
    IF st.panic THEN st
    ELSE IF r.R = st.row /\ st.row > 0
    THEN [st EXCEPT !.data[r.R].C = @ \o r.C]
    ELSE IF r.R # 0
    THEN IF r.R > Len(st.data) THEN [st EXCEPT !.panic = TRUE]
         ELSE [st EXCEPT !.data[r.R] = r, !.row = r.R]
    ELSE IF st.row + 1 > Len(st.data) THEN [st EXCEPT !.panic = TRUE]
         ELSE [st EXCEPT !.data[st.row + 1] = [r EXCEPT !.R = st.row + 1],
                         !.row = st.row + 1]

RECURSIVE PlaceRows(_, _, _)
PlaceRows(work, i, st) ==
    IF i > Len(work) THEN st
    ELSE PlaceRows(work, i + 1, PlaceRow(st, work[i]))

\* third loop: for i := 1; i <= row; i++ { sheetData.Row[i-1].R = i }
NumberRowsFromZero(data, row) ==
    [i \in 1..Len(data) |-> [data[i] EXCEPT !.R = i - 1]]
NumberRows(data, row) ==
    [i \in 1..Len(data) |-> IF i <= row THEN [data[i] EXCEPT !.R = i] ELSE data[i]]

\* the sheet data handed to checkSheetR0: make([]xlsxRow, row), then loops 2, 3
FillRows(rows) ==
    LET n  == CountRows(rows, 1, 0)
        st == PlaceRows(WorkRows(rows), 1,
                        [row |-> 0, data |-> [i \in 1..n |-> ZeroRow], panic |-> FALSE])
    IN  [panic |-> st.panic,
         data |-> IF st.panic THEN st.data ELSE NumberRows(st.data, st.row)]

(***************************************************************************)
(* checkSheetR0 / SRcheckSheetR0.                                          *)
(***************************************************************************)
\* for r := rows; r < row; r++ { append(xlsxRow{R: r + 1}) }
GrowRows(data, row) ==
    IF row <= Len(data) THEN data
    ELSE data \o [k \in 1..(row - Len(data)) |-> [R |-> Len(data) + k, C |-> <<>>]]

\* for c := columns; c < col; c++ { append(xlsxC{}) }
GrowCells(cells, col) ==
    IF col <= Len(cells) THEN cells
    ELSE cells \o [k \in 1..(col - Len(cells)) |-> EmptyCell]

\* the body of the loop over r0.C for one overlay cell
OverlayCellOverwrites(data, cell) ==
    LET p == CellNameToCoordinates(cell.R)
    IN  IF p.err # "" THEN data
        ELSE LET grown == GrowRows(data, p.row)
                 cells == GrowCells(grown[p.row].C, p.col)
             IN  [grown EXCEPT ![p.row].C = [cells EXCEPT ![p.col] = cell]]

OverlayCell(data, cell) ==
    LET p == CellNameToCoordinates(cell.R)
    IN  IF p.err # "" THEN data
        ELSE LET grown == GrowRows(data, p.row)
                 cells == GrowCells(grown[p.row].C, p.col)
             IN  [grown EXCEPT ![p.row].C =
                     IF ~hasValue(cells[p.col]) THEN [cells EXCEPT ![p.col] = cell]
                     ELSE cells]

RECURSIVE checkSheetR0(_, _, _)
checkSheetR0(data, cells, i) ==
    IF i > Len(cells) THEN data
    ELSE checkSheetR0(OverlayCell(data, cells[i]), cells, i + 1)

\* checkSheet as a whole: on a panic ws.SheetData.Row is what the first loop
\* left in it (the list without the row set aside)
checkSheet(rows) ==
    LET f == FillRows(rows)
    IN  IF f.panic THEN [panic |-> TRUE, Row |-> WorkRows(rows)]
        ELSE [panic |-> FALSE, Row |-> checkSheetR0(f.data, OverlayRow(rows).C, 1)]

(***************************************************************************)
(* State of a worksheet that is being read.                                *)
(*   parsed  ws.SheetData.Row as the XML decoder produced it               *)
(*   sheet   ws.SheetData.Row now                                          *)
(*   phase   "idle", "decoded", "checked", or "panic" when checkSheet      *)
(*           ended in a run-time panic                                     *)
(***************************************************************************)
VARIABLES parsed, sheet, phase

(***************************************************************************)
(* State of a StreamWriter and of the parts of its File that it touches.   *)
(*   sheetWritten, cols, mergeCellsCount, mergeCells, tableParts           *)
(*             the fields of the StreamWriter (tableParts is the rId of    *)
(*             the tablePart reference, 0 for the empty string)            *)
(*   rawData   sw.rawData, a bufferedWriter: buf is the in-memory buffer,  *)
(*             tmp the content of the temp file, hasTmp whether the temp   *)
(*             file exists; the content is a sequence of tokens            *)
(*   pkgTables the table parts saved in File.Pkg, by table ID              *)
(*   rels      the relationships of the worksheet                          *)
(*   contentTypes  the table IDs registered as content type parts          *)
(*   cached, checked, pkgSheet                                             *)
(*             File.Sheet, File.checked and File.Pkg for the worksheet     *)
(*   last      the last call made on the writer and the error it returned  *)
(*   called    what has been called so far (for stating the claims)        *)
(***************************************************************************)
VARIABLES sheetWritten, cols, rawData, calls, mergeCellsCount,
          mergeCells, tableParts, pkgTables, rels, contentTypes,
          cached, checked, pkgSheet, last, called

(***************************************************************************)
(* State of the calls of File.SRWorkSheetReader in flight, one per         *)
(* goroutine.                                                              *)
(*   mutex     the goroutine that holds File's sync.Mutex, 0 when free     *)
(*   pc        where each goroutine's call stands                          *)
(*   arg       the arguments of each goroutine's call                      *)
(*   ws        the local ws of each goroutine's call                       *)
(*   ret       what each goroutine's call returns                          *)
(*   reads     the number of calls made so far                             *)
(*   allocated the number of SRxlsxWorksheet objects allocated so far      *)
(*   runs      how often the decoding and SRcheckSheet have run, and how   *)
(*             often a call got as far as storing its worksheet            *)
(*   returned  the worksheets that calls have returned with a nil error    *)
(***************************************************************************)
VARIABLES mutex, pc, arg, ws, ret, reads, allocated, runs, returned

(***************************************************************************)
(* State of a worksheet under structural adjustment.                       *)
(*   wsMergeCells  the refs of ws.MergeCells.Cells                         *)
(*   wsAutoFilter  the ref of ws.AutoFilter, <<>> when there is none       *)
(*   calcChain     the refs of the calculation chain entries of the sheet  *)
(*   wsRows        ws.SheetData.Row                                        *)
(*   adjusted      the number of calls of adjustHelper and the error the   *)
(*                 last one returned                                       *)
(***************************************************************************)
VARIABLES wsMergeCells, wsAutoFilter, calcChain, wsRows, adjusted

(***************************************************************************)
(* A call of a function of the coordinate codec.                           *)
(*   codec     the function called last (op, "" before any call), its      *)
(*             argument (in), its result (out), and, when the argument is  *)
(*             the result of an earlier call, that call's argument (of)    *)
(***************************************************************************)
VARIABLES codec

(***************************************************************************)
(* State of the calls of File.addRels in flight on one relationships path. *)
(*   relsHeap      the xlsxRelationships objects allocated so far: their   *)
(*                 Relationships and the goroutine that holds their mutex  *)
(*                 (0 when free)                                           *)
(*   Relationships what f.Relationships holds for the path: the index of   *)
(*                 an object in relsHeap, 0 when nothing is stored         *)
(*   relsPc        where each goroutine's call stands                      *)
(*   relsArg       the arguments of each goroutine's call and its local    *)
(*                 rels                                                    *)
(*   relsLog       the calls that have computed their result: the ID they  *)
(*                 return, whether they added a relationship, and the      *)
(*                 largest ID in the table they scanned                    *)
(***************************************************************************)
VARIABLES relsHeap, Relationships, relsPc, relsArg, relsLog

relsVars == <<relsHeap, Relationships, relsPc, relsArg, relsLog>>
codecVars == <<codec>>
sheetVars == <<parsed, sheet, phase>>
adjustVars == <<wsMergeCells, wsAutoFilter, calcChain, wsRows, adjusted>>
readerVars == <<mutex, pc, arg, ws, ret, reads, allocated, runs, returned>>
writerVars == <<sheetWritten, cols, rawData, calls, mergeCellsCount,
                mergeCells, tableParts, last, called>>
fileVars == <<pkgTables, rels, contentTypes, cached, checked, pkgSheet>>
vars == <<sheetVars, writerVars, fileVars, readerVars, adjustVars, codecVars,
          relsVars>>

SheetIdle == parsed = <<>> /\ sheet = <<>> /\ phase = "idle"

\* no stream writer: the zero StreamWriter and a File without parts
NoCall == [op |-> "", err |-> ""]
NothingCalled == [setRow |-> FALSE, setRowRef |-> FALSE, setRowOk |-> FALSE]
WriterIdle ==
    /\ sheetWritten = FALSE /\ cols = <<>>
    /\ rawData = [buf |-> <<>>, tmp |-> <<>>, hasTmp |-> FALSE]
    /\ calls = 0
    /\ mergeCellsCount = 0 /\ mergeCells = <<>> /\ tableParts = 0
    /\ last = NoCall /\ called = NothingCalled
\* a worksheet object: its identity and its rows; id 0 is the nil pointer
NoWorksheet == [id |-> 0, Row |-> <<>>]
FileIdle ==
    /\ pkgTables = <<>> /\ rels = <<>> /\ contentTypes = {}
    /\ cached = NoWorksheet /\ checked = FALSE /\ pkgSheet = TRUE

\* no call of the codec yet; rt tells that in is the result of the call of
NoCodecArg == [col |-> 0, row |-> 0, abs |-> FALSE, name |-> <<>>]
NoCodecCall == [op |-> "", in |-> NoCodecArg, out |-> [err |-> ""],
                of |-> NoCodecArg, rt |-> FALSE]
CodecIdle == codec = NoCodecCall

NumRelCallers == 2
RelCallers == 1..NumRelCallers
NoRelsArg == [rels |-> 0, relType |-> "", target |-> 0]
RelsIdle ==
    /\ relsHeap = <<>> /\ Relationships = 0
    /\ relsPc = [p \in RelCallers |-> "idle"]
    /\ relsArg = [p \in RelCallers |-> NoRelsArg]
    /\ relsLog = <<>>

NotAdjusted == [calls |-> 0, err |-> "", bad |-> <<>>]
AdjustIdle ==
    /\ wsMergeCells = <<>> /\ wsAutoFilter = <<>> /\ calcChain = <<>>
    /\ wsRows = <<>> /\ adjusted = NotAdjusted

\* the goroutines that call SRWorkSheetReader
NumReaders == 2
Readers == 1..NumReaders
NoArg == [sheet |-> "", skipCheckRow |-> FALSE]
NoReturn == [ws |-> NoWorksheet, err |-> ""]
NoRuns == [decode |-> 0, normalize |-> 0, stored |-> 0]
ReaderIdle ==
    /\ mutex = 0
    /\ pc = [p \in Readers |-> "idle"]
    /\ arg = [p \in Readers |-> NoArg]
    /\ ws = [p \in Readers |-> NoWorksheet]
    /\ ret = [p \in Readers |-> NoReturn]
    /\ reads = 0 /\ allocated = 0 /\ runs = NoRuns /\ returned = {}

\* bounds of the decoded worksheets
MaxParsedRows == 3
MaxRowNum == 3
MaxOverlayCells == 2
MaxOrdinaryRows == 2

SeqsUpTo(S, n) == UNION {[1..k -> S] : k \in 0..n}

ValueCell(ref, v) == [R |-> ref, V |-> v, T |-> "", F |-> "", S |-> 0]
StyleCell(ref, s) == [R |-> ref, V |-> "", T |-> "", F |-> "", S |-> s]

\* worksheets for the row pass: any order, gaps, duplicates and r="0" rows
RowCellLists ==
    {<<>>, <<ValueCell(<<"A","1">>, "a")>>, <<ValueCell(<<"B","1">>, "b")>>}
SheetInputs == SeqsUpTo([R : 0..MaxRowNum, C : RowCellLists], MaxParsedRows)

\* worksheets for the overlay pass: a few ordinary rows, with or without a
\* row r="0" before them whose cells carry valid, absolute, repeated and
\* malformed references
OverlayPool ==
    {ValueCell(<<"B","2">>, "X"), ValueCell(<<"$","a","$","1">>, "Z"),
     StyleCell(<<"B","2">>, 1), ValueCell(<<"B">>, "W"),
     [R |-> <<"A","3">>, V |-> "", T |-> "", F |-> "SUM(A1)", S |-> 0]}
GridCell(col, row, v) == ValueCell(CoordinatesToCellName(col, row, FALSE).name, v)
OrdinaryCells(n) ==
    {<<>>, <<GridCell(1, n, "a"), GridCell(2, n, "Y")>>, <<GridCell(2, n, "")>>,
     <<GridCell(2, n, "Y")>>}
OrdinaryRows == UNION {{[R |-> n, C |-> cs] : cs \in OrdinaryCells(n)} : n \in 1..2}
OverlayInputs ==
    {ov \o ord :
        ov \in {<<>>} \cup {<<[R |-> 0, C |-> oc]>> :
                                oc \in SeqsUpTo(OverlayPool, MaxOverlayCells)},
        ord \in SeqsUpTo(OrdinaryRows, MaxOrdinaryRows)}

InitSheet ==
    /\ parsed \in SheetInputs /\ sheet = parsed /\ phase = "decoded"
    /\ WriterIdle /\ FileIdle /\ ReaderIdle /\ AdjustIdle /\ CodecIdle /\ RelsIdle
InitOverlay ==
    /\ parsed \in OverlayInputs /\ sheet = parsed /\ phase = "decoded"
    /\ WriterIdle /\ FileIdle /\ ReaderIdle /\ AdjustIdle /\ CodecIdle /\ RelsIdle

\* checkSheet(ws) on a decoded xlsxWorksheet
CheckSheet ==
    /\ phase = "decoded"
    /\ LET res == checkSheet(sheet)
       IN  /\ sheet' = res.Row
           /\ phase' = IF res.panic THEN "panic" ELSE "checked"
    /\ UNCHANGED <<parsed, writerVars, fileVars, readerVars, adjustVars, codecVars, relsVars>>

\* SRcheckSheet(ws) on a decoded SRxlsxWorksheet
SRCheckSheet ==
    /\ phase = "decoded"
    /\ LET res == checkSheet(sheet)
       IN  /\ sheet' = res.Row
           /\ phase' = IF res.panic THEN "panic" ELSE "checked"
    /\ UNCHANGED <<parsed, writerVars, fileVars, readerVars, adjustVars, codecVars, relsVars>>

NextSheet == CheckSheet \/ SRCheckSheet

SpecSheet == InitSheet /\ [][NextSheet]_vars
SpecOverlay == InitOverlay /\ [][NextSheet]_vars

(***************************************************************************)
(* Claims about the sheet grid normalizer and the row-zero overlay.        *)
(***************************************************************************)
\* the largest row number a row list shows: an explicit number moves the
\* counter to it, an r="0" row takes the next value of the counter
RECURSIVE ObservedMax(_, _, _, _)
ObservedMax(work, i, cur, max) ==
    IF i > Len(work) THEN max
    ELSE LET n == IF work[i].R # 0 THEN work[i].R ELSE cur + 1
         IN  ObservedMax(work, i + 1, n, IF n > max THEN n ELSE max)

\* the cells of all rows numbered n, in the order of the list
RECURSIVE CellsOfNumber(_, _, _)
CellsOfNumber(rows, n, i) ==
    IF i > Len(rows) THEN <<>>
    ELSE (IF rows[i].R = n THEN rows[i].C ELSE <<>>) \o CellsOfNumber(rows, n, i + 1)

\* C1: after checkSheet/SRcheckSheet on any row list (here: one whose row
\* r="0", if any, carries no cell) the sheet data is exactly rows 1..N, N the
\* largest row number observed, and the row at index i has number i+1.
C1_DenseRows ==
    (phase = "checked" /\ OverlayRow(parsed).C = <<>>)
        => /\ Len(sheet) = ObservedMax(WorkRows(parsed), 1, 0, 0)
           /\ \A i \in 1..Len(sheet) : sheet[i].R = i

\* C2: when an explicit row number occurs more than once in the row list
\* (here: a list without r="0" rows), the row kept for that number holds the
\* cells of all its occurrences, earlier ones first; no occurrence replaces
\* an earlier one.
C2_DuplicatesAppended ==
    (phase = "checked" /\ \A i \in 1..Len(parsed) : parsed[i].R > 0)
        => \A n \in 1..Len(sheet) :
              Cardinality({i \in 1..Len(parsed) : parsed[i].R = n}) > 1
                  => sheet[n].C = CellsOfNumber(parsed, n, 1)

\* C3: overlay resolution never overwrites a value: every cell that has a
\* value before checkSheetR0 runs is at the same place with the same content
\* afterwards, and a cell that differs afterwards has the content of an
\* overlay cell (or is a synthesized empty cell).
C3_OverlayFirstWins ==
    phase = "checked" =>
        LET pre == FillRows(parsed).data
        IN  /\ Len(sheet) >= Len(pre)
            /\ \A r \in 1..Len(pre) :
                  /\ Len(sheet[r].C) >= Len(pre[r].C)
                  /\ \A c \in 1..Len(pre[r].C) :
                        /\ hasValue(pre[r].C[c]) => sheet[r].C[c] = pre[r].C[c]
                        /\ sheet[r].C[c] # pre[r].C[c] =>
                              \E k \in 1..Len(OverlayRow(parsed).C) :
                                  sheet[r].C[c] = OverlayRow(parsed).C[k]

\* an overlay cell with a valid reference met a grid cell that has another
\* value, and the sheet was normalized
C3_Witness ==
    /\ phase = "checked"
    /\ \E k \in 1..Len(OverlayRow(parsed).C) :
          LET cell == OverlayRow(parsed).C[k]
              p    == CellNameToCoordinates(cell.R)
              pre  == FillRows(parsed).data
          IN  /\ p.err = ""
              /\ hasValue(cell)
              /\ p.row <= Len(pre)
              /\ p.col <= Len(pre[p.row].C)
              /\ hasValue(pre[p.row].C[p.col])
              /\ pre[p.row].C[p.col] # cell
              /\ sheet[p.row].C[p.col] = pre[p.row].C[p.col]

\* the rows an overlay reaches: the largest row of its valid references
RECURSIVE OverlayReach(_, _)
OverlayReach(cells, i) ==
    IF i > Len(cells) THEN 0
    ELSE LET p    == CellNameToCoordinates(cells[i].R)
             rest == OverlayReach(cells, i + 1)
         IN  IF p.err = "" /\ p.row > rest THEN p.row ELSE rest

OnlyOverlay == Len(parsed) = 1 /\ parsed[1].R = 0

\* C4 as stated: no rows, or only the row-zero overlay whatever its cells,
\* normalize to zero rows.
C4_OverlayOnlyIsEmpty ==
    (phase # "decoded" /\ (parsed = <<>> \/ OnlyOverlay))
        => (phase = "checked" /\ sheet = <<>>)

\* C4 amended: no rows normalize to zero rows without a failure; only the
\* row-zero overlay normalizes to rows 1..M, M the largest row of a valid
\* overlay reference, so to zero rows when no overlay reference is valid.
C4_OverlayOnlyReach ==
    (phase # "decoded" /\ (parsed = <<>> \/ OnlyOverlay))
        => /\ phase = "checked"
           /\ Len(sheet) = OverlayReach(OverlayRow(parsed).C, 1)
           /\ \A i \in 1..Len(sheet) : sheet[i].R = i

\* a worksheet holding only an overlay with a valid reference was normalized
C4_Witness ==
    /\ phase = "checked"
    /\ OnlyOverlay
    /\ OverlayReach(parsed[1].C, 1) = 2
    /\ Len(sheet) = 2

(***************************************************************************)
(* The worksheet XML a StreamWriter emits, as a sequence of tokens.  A     *)
(* token is a start tag ("worksheet", "cols", "sheetData", "row",          *)
(* "mergeCells"), an end tag ("/row", ...) or a whole element ("col", "c", *)
(* "mergeCell", "tableParts").  n is the row number, the first column of a *)
(* col, the merge count or the rId; r a reference; v the cell value; s a   *)
(* style id or the last column of a col; h a height or width; f a formula  *)
(* or the hidden attribute; ty the cell type.  The worksheet fields that   *)
(* bulkAppendFields copies are part of the tokens next to them.            *)
(***************************************************************************)
Tok(t, n, r, v) ==
    [t |-> t, n |-> n, r |-> r, v |-> v, s |-> 0, h |-> 0, f |-> "", ty |-> ""]
StartTags == {"worksheet", "cols", "sheetData", "row", "mergeCells"}
EndTags == {"/worksheet", "/cols", "/sheetData", "/row", "/mergeCells"}
EndTagOf(t) ==
    CASE t = "worksheet" -> "/worksheet" [] t = "cols" -> "/cols"
      [] t = "sheetData" -> "/sheetData" [] t = "row" -> "/row"
      [] t = "mergeCells" -> "/mergeCells"

(***************************************************************************)
(* bufferedWriter.  The size of the buffer is counted in tokens, and       *)
(* StreamChunkSize is scaled to that.  Writes to the temp file succeed;    *)
(* creating it may fail (tmpOk), which Sync tolerates.                     *)
(***************************************************************************)
StreamChunkSize == 4

BwWrite(bw, toks) == [bw EXCEPT !.buf = @ \o toks]

\* a Flush that resets the buffer without writing it to the temp file
BwFlushDropsBuffer(bw) ==
    IF ~bw.hasTmp THEN bw ELSE [bw EXCEPT !.buf = <<>>]

BwFlush(bw) ==
    IF ~bw.hasTmp THEN bw ELSE [bw EXCEPT !.tmp = @ \o bw.buf, !.buf = <<>>]

BwSync(bw, tmpOk) ==
    IF Len(bw.buf) < StreamChunkSize THEN bw
    ELSE IF ~bw.hasTmp /\ ~tmpOk THEN bw
    ELSE BwFlush([bw EXCEPT !.hasTmp = TRUE])

\* Reader(): the writer after the call and the bytes the reader yields
BwReader(bw) ==
    IF ~bw.hasTmp THEN [bw |-> bw, content |-> bw.buf]
    ELSE [bw |-> BwFlush(bw), content |-> BwFlush(bw).tmp]

\* everything written so far, in write order
Stream == rawData.tmp \o rawData.buf

(***************************************************************************)
(* StreamWriter.SetRow.                                                    *)
(***************************************************************************)
\* values of a row: Go nil or a string (kinds "time" and "badtime" stand for
\* a time.Time that setCellTime converts and one for which it returns an
\* error), each bare or wrapped in a Cell with a style id and a formula
NilVal == [k |-> "nil", v |-> "", cell |-> FALSE, s |-> 0, f |-> ""]
StrVal(x) == [k |-> "string", v |-> x, cell |-> FALSE, s |-> 0, f |-> ""]
CellVal(val, s, f) == [val EXCEPT !.cell = TRUE, !.s = s, !.f = f]

ZeroRowOpts == [Height |-> 0, Hidden |-> FALSE, StyleID |-> 0]
parseRowOpts(opts) == IF opts = <<>> THEN ZeroRowOpts ELSE opts[Len(opts)]

marshalAttrs(o) ==
    IF o.Height > MaxRowHeight
    THEN [err |-> "ErrMaxRowHeight", s |-> 0, h |-> 0, f |-> ""]
    ELSE [err |-> "",
          s |-> IF o.StyleID > 0 THEN o.StyleID ELSE 0,
          h |-> IF o.Height > 0 THEN o.Height ELSE 0,
          f |-> IF o.Hidden THEN "hidden" ELSE ""]

\* setCellValFunc on the value val (unwrapped): the type and value of the cell
setCellValFunc(val) ==
    CASE val.k = "string" -> [err |-> "", ty |-> "str", v |-> val.v]
      [] val.k = "nil" -> [err |-> "", ty |-> "str", v |-> ""]
      [] val.k = "time" -> [err |-> "", ty |-> "", v |-> val.v]
      [] val.k = "badtime" -> [err |-> "ErrToExcelTime", ty |-> "", v |-> ""]

RowStartTokOfColumn(col, row, a) ==
    [Tok("row", col, <<>>, "") EXCEPT !.s = a.s, !.h = a.h, !.f = a.f]
\* fmt.Fprintf(&sw.rawData, `<row r="%d"%s>`, row, attrs)
RowStartTok(col, row, a) ==
    [Tok("row", row, <<>>, "") EXCEPT !.s = a.s, !.h = a.h, !.f = a.f]

\* writeCell for c := xlsxC{R: ref, S: ...} after setCellFormula, setCellValFunc
CellTok(ref, val, styleID, cv) ==
    [Tok("c", 0, ref, cv.v) EXCEPT
        !.s = IF val.cell THEN val.s ELSE styleID,
        !.f = IF val.cell THEN val.f ELSE "",
        !.ty = cv.ty]

\* the loop with the column of a cell counted from the cells written
RECURSIVE WriteCellsPacked(_, _, _, _, _, _)
WriteCellsPacked(col, row, values, i, styleID, acc) ==
    IF i > Len(values) THEN [err |-> "", toks |-> acc \o <<Tok("/row", 0, <<>>, "")>>]
    ELSE LET val == values[i]
             ref == CoordinatesToCellName(col + (Len(acc) - 1), row, FALSE)
             cv  == setCellValFunc(val)
         IN  IF val.k = "nil" /\ ~val.cell
             THEN WriteCellsPacked(col, row, values, i + 1, styleID, acc)
             ELSE IF ref.err # "" THEN [err |-> ref.err, toks |-> acc]
             ELSE IF cv.err # ""
             THEN [err |-> cv.err, toks |-> acc \o <<Tok("/row", 0, <<>>, "")>>]
             ELSE WriteCellsPacked(col, row, values, i + 1, styleID,
                                   acc \o <<CellTok(ref.name, val, styleID, cv)>>)
\* the loop over values from index i (1-based) on, then the closing tag;
\* acc is what the call has written since the row's start tag
RECURSIVE WriteCells(_, _, _, _, _, _)
WriteCells(col, row, values, i, styleID, acc) ==
    IF i > Len(values) THEN [err |-> "", toks |-> acc \o <<Tok("/row", 0, <<>>, "")>>]
    ELSE LET val == values[i]
             ref == CoordinatesToCellName(col + (i - 1), row, FALSE)
             cv  == setCellValFunc(val)
         IN  IF val.k = "nil" /\ ~val.cell
             THEN WriteCells(col, row, values, i + 1, styleID, acc)
             ELSE IF ref.err # "" THEN [err |-> ref.err, toks |-> acc]
             ELSE IF cv.err # ""
             THEN [err |-> cv.err, toks |-> acc \o <<Tok("/row", 0, <<>>, "")>>]
             ELSE WriteCells(col, row, values, i + 1, styleID,
                             acc \o <<CellTok(ref.name, val, styleID, cv)>>)

\* "<cols>" + sw.cols + "</cols>", if any, and `<sheetData>`
SheetDataStart(cs) ==
    (IF Len(cs) > 0
     THEN <<Tok("cols", 0, <<>>, "")>> \o cs \o <<Tok("/cols", 0, <<>>, "")>>
     ELSE <<>>) \o <<Tok("sheetData", 0, <<>>, "")>>

\* what one call of SetRow writes and returns
SetRowOutput(written, cs, cell, values, opts) ==
    LET p     == CellNameToCoordinates(cell)
        start == IF written THEN <<>> ELSE SheetDataStart(cs)
        o     == parseRowOpts(opts)
        a     == marshalAttrs(o)
        w     == WriteCells(p.col, p.row, values, 1, o.StyleID,
                            <<RowStartTok(p.col, p.row, a)>>)
    IN  IF p.err # "" THEN [err |-> p.err, toks |-> <<>>, entered |-> FALSE]
        ELSE IF a.err # "" THEN [err |-> a.err, toks |-> start, entered |-> TRUE]
        ELSE [err |-> w.err, toks |-> start \o w.toks, entered |-> TRUE]

SetRow(cell, values, opts) ==
    \E out \in {SetRowOutput(sheetWritten, cols, cell, values, opts)} :
        /\ \E tmpOk \in BOOLEAN :
              rawData' = IF out.err = ""
                         THEN BwSync(BwWrite(rawData, out.toks), tmpOk)
                         ELSE BwWrite(rawData, out.toks)
        /\ sheetWritten' = (sheetWritten \/ out.entered)
        /\ last' = [op |-> "SetRow", err |-> out.err]
        /\ called' = [called EXCEPT !.setRow = TRUE,
                                    !.setRowRef = @ \/ out.entered,
                                    !.setRowOk = @ \/ out.err = ""]
        /\ UNCHANGED <<cols, mergeCellsCount, mergeCells, tableParts>>
        /\ UNCHANGED <<sheetVars, fileVars, readerVars, adjustVars, codecVars, relsVars>>

(***************************************************************************)
(* StreamWriter.SetColWidth and StreamWriter.MergeCell.                    *)
(***************************************************************************)
ColTok(min, max, width) ==
    [Tok("col", IF min > max THEN max ELSE min, <<>>, "") EXCEPT
        !.s = IF min > max THEN min ELSE max, !.h = width]

SetColWidthUnguarded(written, min, max, width) ==
    IF min < MinColumns \/ min > MaxColumns \/ max < MinColumns \/ max > MaxColumns
    THEN "ErrColumnNumber"
    ELSE IF width > MaxColumnWidth THEN "ErrColumnWidth"
    ELSE ""
\* the error SetColWidth returns ("" for nil)
SetColWidthErr(written, min, max, width) ==
    IF written THEN "ErrStreamSetColWidth"
    ELSE IF min < MinColumns \/ min > MaxColumns \/ max < MinColumns \/ max > MaxColumns
    THEN "ErrColumnNumber"
    ELSE IF width > MaxColumnWidth THEN "ErrColumnWidth"
    ELSE ""

SetColWidth(min, max, width) ==
    \E err \in {SetColWidthErr(sheetWritten, min, max, width)} :
        /\ cols' = IF err = "" THEN Append(cols, ColTok(min, max, width)) ELSE cols
        /\ last' = [op |-> "SetColWidth", err |-> err]
        /\ UNCHANGED <<sheetWritten, rawData, mergeCellsCount, mergeCells,
                       tableParts, called>>
        /\ UNCHANGED <<sheetVars, fileVars, readerVars, adjustVars, codecVars, relsVars>>

cellRefsToCoordinates(firstCell, lastCell) ==
    LET a == CellNameToCoordinates(firstCell)
        b == CellNameToCoordinates(lastCell)
    IN  IF a.err # "" THEN [c |-> <<a.col, a.row, 0, 0>>, err |-> a.err, bad |-> a.bad]
        ELSE [c |-> <<a.col, a.row, b.col, b.row>>, err |-> b.err, bad |-> b.bad]

MergeCell(hCell, vCell) ==
    \E c \in {cellRefsToCoordinates(hCell, vCell)} :
        /\ mergeCellsCount' = IF c.err = "" THEN mergeCellsCount + 1 ELSE mergeCellsCount
        /\ mergeCells' = IF c.err = ""
                         THEN Append(mergeCells,
                                     Tok("mergeCell", 0, hCell \o <<":">> \o vCell, ""))
                         ELSE mergeCells
        /\ last' = [op |-> "MergeCell", err |-> c.err]
        /\ UNCHANGED <<sheetWritten, cols, rawData, tableParts, called>>
        /\ UNCHANGED <<sheetVars, fileVars, readerVars, adjustVars, codecVars, relsVars>>

(***************************************************************************)
(* StreamWriter.getRowValues: the xml.Decoder over what rawData.Reader()   *)
(* yields.  Token() fails with a syntax error on an end tag that does not  *)
(* match the innermost open element and at the end of the input while an   *)
(* element is open; at the end of the input with no open element it        *)
(* returns io.EOF.                                                         *)
(***************************************************************************)
\* dec.DecodeElement(&row, &startElement) from position i on: the c children
\* of the row; elements nested in other children are skipped
RECURSIVE DecodeRow(_, _, _, _)
DecodeRow(content, i, stack, cells) ==
    IF i > Len(content) THEN [err |-> "XMLSyntaxError", cells |-> <<>>]
    ELSE LET tok == content[i]
         IN  IF tok.t \in StartTags
             THEN DecodeRow(content, i + 1, <<tok.t>> \o stack, cells)
             ELSE IF tok.t \in EndTags
             THEN IF stack = <<>>
                  THEN IF tok.t = "/row" THEN [err |-> "", cells |-> cells]
                       ELSE [err |-> "XMLSyntaxError", cells |-> <<>>]
                  ELSE IF tok.t = EndTagOf(Head(stack))
                       THEN DecodeRow(content, i + 1, Tail(stack), cells)
                       ELSE [err |-> "XMLSyntaxError", cells |-> <<>>]
             ELSE DecodeRow(content, i + 1, stack,
                            IF stack = <<>> /\ tok.t = "c"
                            THEN Append(cells, tok) ELSE cells)

\* getRowElement: a start element named row whose r attribute is hRow
getRowElement(tok, hRow) == tok.t = "row" /\ tok.n = hRow

\* res[col-hCol] = c.V for the cells of the row inside hCol..vCol
RECURSIVE RowCellValues(_, _, _, _, _)
RowCellValues(cells, i, res, hCol, vCol) ==
    IF i > Len(cells) THEN [err |-> "", res |-> res]
    ELSE LET p == CellNameToCoordinates(cells[i].r)
         IN  IF p.err # "" THEN [err |-> p.err, res |-> <<>>]
             ELSE IF p.col < hCol \/ p.col > vCol
             THEN RowCellValues(cells, i + 1, res, hCol, vCol)
             ELSE RowCellValues(cells, i + 1,
                                [res EXCEPT ![p.col - hCol + 1] = cells[i].v],
                                hCol, vCol)

\* the for loop over dec.Token() from position i on
RECURSIVE ScanRows(_, _, _, _, _, _)
ScanRows(content, i, stack, hRow, hCol, vCol) ==
    LET res == [k \in 1..(vCol - hCol + 1) |-> ""]
    IN  IF i > Len(content)
        THEN IF stack = <<>> THEN [err |-> "", res |-> res]
             ELSE [err |-> "XMLSyntaxError", res |-> <<>>]
        ELSE LET tok == content[i]
                 row == DecodeRow(content, i + 1, <<>>, <<>>)
             IN  IF getRowElement(tok, hRow)
                 THEN IF row.err # "" THEN [err |-> row.err, res |-> <<>>]
                      ELSE RowCellValues(row.cells, 1, res, hCol, vCol)
                 ELSE IF tok.t \in StartTags
                 THEN ScanRows(content, i + 1, <<tok.t>> \o stack, hRow, hCol, vCol)
                 ELSE IF tok.t \in EndTags
                 THEN IF stack # <<>> /\ tok.t = EndTagOf(Head(stack))
                      THEN ScanRows(content, i + 1, Tail(stack), hRow, hCol, vCol)
                      ELSE [err |-> "XMLSyntaxError", res |-> <<>>]
                 ELSE ScanRows(content, i + 1, stack, hRow, hCol, vCol)

getRowValues(bw, hRow, hCol, vCol) ==
    ScanRows(BwReader(bw).content, 1, <<>>, hRow, hCol, vCol)

(***************************************************************************)
(* File.addRels on the relationships of the worksheet, and                 *)
(* StreamWriter.AddTable.                                                  *)
(***************************************************************************)
sortCoordinates(c) ==
    LET a == IF c[3] < c[1] THEN <<c[3], c[2], c[1], c[4]>> ELSE c
    IN  IF a[4] < a[2] THEN <<a[1], a[4], a[3], a[2]>> ELSE a

coordinatesToRangeRef(c) ==
    LET firstCell == CoordinatesToCellName(c[1], c[2], FALSE)
        lastCell  == CoordinatesToCellName(c[3], c[4], FALSE)
    IN  IF firstCell.err # "" THEN [ref |-> <<>>, err |-> firstCell.err]
        ELSE IF lastCell.err # "" THEN [ref |-> <<>>, err |-> lastCell.err]
        ELSE [ref |-> firstCell.name \o <<":">> \o lastCell.name, err |-> ""]

rIdPrefix == <<"r", "I", "d">>
\* strconv.Atoi(strings.TrimPrefix(id, "rId")), 0 when it fails
RelNumber(id) ==
    LET rest == IF Len(id) >= 3 /\ SubSeq(id, 1, 3) = rIdPrefix
                THEN SubSeq(id, 4, Len(id)) ELSE id
        a == Atoi(rest)
    IN  IF a.ok THEN a.val ELSE 0

uniqPart == {"sharedStrings"}

RECURSIVE addRelsFrom(_, _, _, _, _)
addRelsFrom(rs, idx, rID, relType, target) ==
    IF idx > Len(rs)
    THEN [rels |-> Append(rs, [ID |-> rIdPrefix \o Itoa(rID + 1),
                               Type |-> relType, Target |-> target]),
          rID |-> rID + 1]
    ELSE LET ID  == RelNumber(rs[idx].ID)
             max == IF ID > rID THEN ID ELSE rID
         IN  IF relType = rs[idx].Type /\ rs[idx].Type \in uniqPart
             THEN [rels |-> [rs EXCEPT ![idx].Target = "/xl/sharedStrings.xml"],
                   rID |-> max]
             ELSE addRelsFrom(rs, idx + 1, max, relType, target)

addRels(rs, relType, target) == addRelsFrom(rs, 1, 0, relType, target)

\* the tables of the package
countTables == Len(pkgTables)

TableCoordinatesAsGiven(c) == sortCoordinates(c)
\* sortCoordinates, then "the table at least two lines"
TableCoordinates(c) ==
    LET sorted == sortCoordinates(c)
    IN  IF sorted[2] = sorted[4] THEN [sorted EXCEPT ![4] = @ + 1] ELSE sorted

\* what AddTable returns and registers, from the results of its steps: c of
\* cellRefsToCoordinates, ref of coordinatesToRangeRef, headers of
\* getRowValues, r of addRels
AddTableOutput(c, ref, headers, r, tableID, opts) ==
    LET err == IF ~opts.valid THEN "ErrTableOptions"
               ELSE IF c.err # "" THEN c.err
               ELSE IF ref.err # "" THEN ref.err
               ELSE headers.err
    IN  [err |-> err,
         read |-> opts.valid /\ c.err = "" /\ ref.err = "",
         rels |-> r.rels, rID |-> r.rID, tableID |-> tableID,
         table |-> [ID |-> tableID,
                    Name |-> IF opts.TableName = <<>>
                             THEN <<"T", "a", "b", "l", "e">> \o Itoa(tableID)
                             ELSE opts.TableName,
                    Ref |-> ref.ref,
                    TableColumns |-> IF err = "" THEN headers.res ELSE <<>>]]

\* the quantifiers over one-element sets name the results of the steps
AddTable(hCell, vCell, opts) ==
    \E c \in {cellRefsToCoordinates(hCell, vCell)} :
    \E coords \in {TableCoordinates(c.c)} :
    \E ref \in {coordinatesToRangeRef(coords)} :
    \E headers \in {getRowValues(rawData, coords[2], coords[1], coords[3])} :
    \E r \in {addRels(rels, "table", countTables + 1)} :
    \E out \in {AddTableOutput(c, ref, headers, r, countTables + 1, opts)} :
        /\ rawData' = IF out.read THEN BwReader(rawData).bw ELSE rawData
        /\ IF out.err = ""
           THEN /\ rels' = out.rels
                /\ tableParts' = out.rID
                /\ contentTypes' = contentTypes \cup {out.tableID}
                /\ pkgTables' = Append(pkgTables, out.table)
           ELSE UNCHANGED <<rels, tableParts, contentTypes, pkgTables>>
        /\ last' = [op |-> "AddTable", err |-> out.err]
        /\ UNCHANGED <<sheetWritten, cols, mergeCellsCount, mergeCells, called>>
        /\ UNCHANGED <<sheetVars, cached, checked, pkgSheet, readerVars, adjustVars, codecVars, relsVars>>

(***************************************************************************)
(* StreamWriter.Flush.                                                     *)
(***************************************************************************)
FlushTokens(written, count, merges, parts) ==
    (IF written THEN <<>> ELSE <<Tok("sheetData", 0, <<>>, "")>>)
    \o <<Tok("/sheetData", 0, <<>>, "")>>
    \o (IF count > 0
        THEN <<Tok("mergeCells", count, <<>>, "")>> \o merges
             \o <<Tok("/mergeCells", 0, <<>>, "")>>
        ELSE <<>>)
    \o (IF parts # 0 THEN <<Tok("tableParts", parts, <<>>, "")>> ELSE <<>>)
    \o <<Tok("/worksheet", 0, <<>>, "")>>

Flush ==
    /\ rawData' = BwFlush(BwWrite(rawData,
                      FlushTokens(sheetWritten, mergeCellsCount, mergeCells, tableParts)))
    /\ sheetWritten' = TRUE
    /\ cached' = NoWorksheet
    /\ checked' = FALSE
    /\ pkgSheet' = FALSE
    /\ last' = [op |-> "Flush", err |-> ""]
    /\ UNCHANGED <<cols, mergeCellsCount, mergeCells, tableParts, called>>
    /\ UNCHANGED <<sheetVars, pkgTables, rels, contentTypes, readerVars, adjustVars, codecVars, relsVars>>

(***************************************************************************)
(* The streaming writer as a state machine: the state after                *)
(* NewStreamWriter, and one action per exported method, called with        *)
(* arguments from small sets.  calls counts the calls made, up to          *)
(* MaxCalls.                                                               *)
(***************************************************************************)
MaxCalls == 4

Ref(col, row) == CoordinatesToCellName(col, row, FALSE).name

RECURSIVE CountTag(_, _)
CountTag(toks, t) ==
    IF toks = <<>> THEN 0
    ELSE (IF Head(toks).t = t THEN 1 ELSE 0) + CountTag(Tail(toks), t)

\* arguments of SetRow: rows 1 and 2 that serialize, with nil entries before
\* and between the values of a row that starts at column B, a wrapped value and row options; a start reference without a row number; a
\* height above the maximum; a row that runs past the last column
SetRowInputs ==
    { <<Ref(1, 1), <<StrVal("a"), StrVal("b")>>, <<>>>>,
      <<Ref(3, 2), <<NilVal, StrVal("c"), NilVal, CellVal(StrVal("d"), 2, "=A1")>>,
        <<[Height |-> 20, Hidden |-> TRUE, StyleID |-> 1]>>>>,
      <<<<"A">>, <<StrVal("f")>>, <<>>>>,
      <<Ref(1, 1), <<StrVal("g")>>,
        <<[Height |-> MaxRowHeight + 1, Hidden |-> FALSE, StyleID |-> 0]>>>>,
      <<Ref(MaxColumns, 2), <<StrVal("h"), StrVal("i")>>, <<>>>> }

SetColWidthInputs == { <<3, 2, 10>>, <<0, 1, 10>>, <<1, 1, MaxColumnWidth + 1>> }

MergeCellInputs == { <<Ref(1, 1), Ref(2, 1)>>, <<Ref(1, 1), <<"B">>>> }

AddTableInputs ==
    { <<Ref(2, 1), Ref(1, 1), [valid |-> TRUE, TableName |-> <<>>]>>,
      <<Ref(3, 2), Ref(2, 1), [valid |-> TRUE, TableName |-> <<>>]>>,
      <<Ref(1, 1), Ref(2, 2), [valid |-> FALSE, TableName |-> <<>>]>>,
      <<Ref(1, 1), <<"1">>, [valid |-> TRUE, TableName |-> <<"T">>]>> }

\* relationships the worksheet has before the writer adds any
InitialRels == <<[ID |-> rIdPrefix \o <<"3">>, Type |-> "drawing", Target |-> 0]>>

HeaderTok == Tok("worksheet", 0, <<>>, "")

InitStream ==
    /\ SheetIdle
    /\ sheetWritten = FALSE
    /\ cols = <<>>
    /\ rawData = [buf |-> <<HeaderTok>>, tmp |-> <<>>, hasTmp |-> FALSE]
    /\ calls = 0
    /\ mergeCellsCount = 0
    /\ mergeCells = <<>>
    /\ tableParts = 0
    /\ last = NoCall
    /\ called = NothingCalled
    /\ pkgTables = <<>>
    /\ rels = InitialRels
    /\ contentTypes = {}
    /\ cached = [id |-> 1, Row |-> <<>>]
    /\ checked = TRUE
    /\ ReaderIdle /\ AdjustIdle /\ CodecIdle /\ RelsIdle
    /\ pkgSheet = TRUE

SetRowStep ==
    /\ calls < MaxCalls
    /\ calls' = calls + 1
    /\ \E in \in SetRowInputs : SetRow(in[1], in[2], in[3])

SetColWidthStep ==
    /\ calls < MaxCalls
    /\ calls' = calls + 1
    /\ \E in \in SetColWidthInputs : SetColWidth(in[1], in[2], in[3])

MergeCellStep ==
    /\ calls < MaxCalls
    /\ calls' = calls + 1
    /\ \E in \in MergeCellInputs : MergeCell(in[1], in[2])

AddTableStep ==
    /\ calls < MaxCalls
    /\ calls' = calls + 1
    /\ \E in \in AddTableInputs : AddTable(in[1], in[2], in[3])

FlushStep ==
    /\ calls < MaxCalls
    /\ calls' = calls + 1
    /\ Flush

NextStream ==
    \/ SetRowStep
    \/ SetColWidthStep
    \/ MergeCellStep
    \/ AddTableStep
    \/ FlushStep

SpecStream == InitStream /\ [][NextStream]_vars

(***************************************************************************)
(* Claims about the streaming writer.                                      *)
(***************************************************************************)
IsPrefix(a, b) == Len(a) <= Len(b) /\ SubSeq(b, 1, Len(a)) = a
Appended == SubSeq(Stream', Len(Stream) + 1, Len(Stream'))
RowNumbers(toks) == [k \in 1..CountTag(toks, "row") |->
    SelectSeq(toks, LAMBDA tok : tok.t = "row")[k].n]
Flushed == CountTag(Stream, "/worksheet") > 0
ValidColWidth(min, max, width) ==
    /\ min \in MinColumns..MaxColumns
    /\ max \in MinColumns..MaxColumns
    /\ width <= MaxColumnWidth

\* C5: no step of the writer changes or removes what was written before it,
\* and every SetRow that returns nil appends, after everything written
\* before, exactly one row start tag, carrying the row number of the start
\* reference, and ends the output with the end tag of that row.
C5_OneRowAppended ==
    [][/\ IsPrefix(Stream, Stream')
       /\ \A in \in SetRowInputs :
            (SetRow(in[1], in[2], in[3]) /\ last'.err = "") =>
                /\ CountTag(Appended, "row") = 1
                /\ RowNumbers(Appended) = <<CellNameToCoordinates(in[1]).row>>
                /\ Appended[Len(Appended)].t = "/row"]_vars

\* rows 1 and 2 written in this order by two calls that returned nil
C5_Witness ==
    /\ RowNumbers(Stream) = <<1, 2>>
    /\ calls = 2
    /\ last = [op |-> "SetRow", err |-> ""]

\* C6 as stated: after any call of SetRow, SetColWidth returns
\* ErrStreamSetColWidth and records nothing; before any call of SetRow, with
\* a valid range and width, it returns nil and the width is buffered.
C6_RejectedAfterAnySetRow ==
    [][\A in \in SetColWidthInputs :
          SetColWidth(in[1], in[2], in[3]) =>
              IF called.setRow
              THEN last'.err = "ErrStreamSetColWidth" /\ cols' = cols
              ELSE ValidColWidth(in[1], in[2], in[3]) =>
                       /\ last'.err = ""
                       /\ cols' = Append(cols, ColTok(in[1], in[2], in[3]))]_vars

\* C6, amended: SetColWidth returns ErrStreamSetColWidth and records nothing
\* after a call of SetRow whose start reference was valid, or after Flush;
\* before both, with a valid range and width, it returns nil and the width
\* is buffered.
C6_RejectedAfterRowStart ==
    [][\A in \in SetColWidthInputs :
          SetColWidth(in[1], in[2], in[3]) =>
              IF called.setRowRef \/ Flushed
              THEN last'.err = "ErrStreamSetColWidth" /\ cols' = cols
              ELSE ValidColWidth(in[1], in[2], in[3]) =>
                       /\ last'.err = ""
                       /\ cols' = Append(cols, ColTok(in[1], in[2], in[3]))]_vars

\* SetColWidth has been rejected after a SetRow that wrote a row, and a
\* width buffered earlier was written in front of that row
C6_Witness ==
    /\ last = [op |-> "SetColWidth", err |-> "ErrStreamSetColWidth"]
    /\ called.setRowOk
    /\ CountTag(Stream, "col") = 1
    /\ Len(cols) = 1

\* C7: AddTable, called when no SetRow has returned nil yet or after Flush,
\* returns an error and registers no table part, relationship or tableParts
\* reference.
C7_AddTableOnlyWhileWriting ==
    [][\A in \in AddTableInputs :
          (AddTable(in[1], in[2], in[3]) /\ (~called.setRowOk \/ Flushed)) =>
              /\ last'.err # ""
              /\ UNCHANGED <<pkgTables, rels, tableParts, contentTypes>>]_vars

\* C8: once Flush has been called, every call returns an error and the
\* output stays as the first Flush left it.
C8_FlushIsTerminal ==
    [][Flushed => (last'.err # "" /\ Stream' = Stream)]_vars

(***************************************************************************)
(* File.SRWorkSheetReader, called from several goroutines.  A call is a    *)
(* sequence of steps; between two steps of one goroutine the others may    *)
(* take theirs.  The worksheet XML in the package is well formed; its      *)
(* rows are in parsed.                                                     *)
(***************************************************************************)
MaxReads == 3

SheetNames == {"Sheet1", "SheetN"}
\* getSheetXMLPath: the workbook has the one worksheet Sheet1
getSheetXMLPathOfAny(name) == TRUE
getSheetXMLPath(name) == name = "Sheet1"

\* newNoExistSheetError: fmt.Errorf("sheet %s is not exist", sheet)
newNoExistSheetError(name) == "sheet " \o name \o " is not exist"

\* SRcheckRow: an error when a cell reference of the worksheet is malformed
SRcheckRow(rows) ==
    IF \E i \in 1..Len(rows) : \E j \in 1..Len(rows[i].C) :
           CellNameToCoordinates(rows[i].C[j].R).err # ""
    THEN "ErrCheckRow" ELSE ""

\* worksheets in the package: one that SRcheckRow accepts (with a gap for
\* SRcheckSheet to fill) and one with a malformed cell reference
ReaderInputs ==
    { <<[R |-> 2, C |-> <<GridCell(1, 2, "a")>>]>>,
      <<[R |-> 1, C |-> <<ValueCell(<<"A">>, "x")>>]>> }

InitReader ==
    /\ parsed \in ReaderInputs /\ sheet = <<>> /\ phase = "idle"
    /\ WriterIdle /\ FileIdle /\ ReaderIdle /\ AdjustIdle /\ CodecIdle /\ RelsIdle

\* sync.Mutex: Lock returns when no goroutine holds the mutex
MutexIgnored(m) == TRUE
MutexFree(m) == m = 0

\* the call SRWorkSheetReader(sheet, skipCheckRow) by goroutine p
Call(p) ==
    /\ pc[p] = "idle" /\ reads < MaxReads
    /\ \E name \in SheetNames, skip \in BOOLEAN :
           arg' = [arg EXCEPT ![p] = [sheet |-> name, skipCheckRow |-> skip]]
    /\ pc' = [pc EXCEPT ![p] = "lock"]
    /\ ws' = [ws EXCEPT ![p] = NoWorksheet]
    /\ ret' = [ret EXCEPT ![p] = NoReturn]
    /\ reads' = reads + 1
    /\ UNCHANGED <<mutex, allocated, runs, returned>>
    /\ UNCHANGED <<sheetVars, writerVars, fileVars, adjustVars, codecVars, relsVars>>

\* f.Lock()
Lock(p) ==
    /\ pc[p] = "lock" /\ MutexFree(mutex)
    /\ mutex' = p
    /\ pc' = [pc EXCEPT ![p] = "path"]
    /\ UNCHANGED <<arg, ws, ret, reads, allocated, runs, returned>>
    /\ UNCHANGED <<sheetVars, writerVars, fileVars, adjustVars, codecVars, relsVars>>

\* getSheetXMLPath, and the return of newNoExistSheetError
GetPath(p) ==
    /\ pc[p] = "path"
    /\ IF getSheetXMLPath(arg[p].sheet)
       THEN pc' = [pc EXCEPT ![p] = "load"] /\ ret' = ret
       ELSE /\ pc' = [pc EXCEPT ![p] = "unlock"]
            /\ ret' = [ret EXCEPT ![p] = [ws |-> NoWorksheet,
                                       err |-> newNoExistSheetError(arg[p].sheet)]]
    /\ UNCHANGED <<mutex, arg, ws, reads, allocated, runs, returned>>
    /\ UNCHANGED <<sheetVars, writerVars, fileVars, adjustVars, codecVars, relsVars>>

\* f.Sheet.Load(name), and the return of the cached worksheet
Load(p) ==
    /\ pc[p] = "load"
    /\ IF cached.id # 0
       THEN /\ ws' = [ws EXCEPT ![p] = cached]
            /\ ret' = [ret EXCEPT ![p] = [ws |-> cached, err |-> ""]]
            /\ pc' = [pc EXCEPT ![p] = "unlock"]
       ELSE /\ pc' = [pc EXCEPT ![p] = "decode"]
            /\ UNCHANGED <<ws, ret>>
    /\ UNCHANGED <<mutex, arg, reads, allocated, runs, returned>>
    /\ UNCHANGED <<sheetVars, writerVars, fileVars, adjustVars, codecVars, relsVars>>

\* ws = new(SRxlsxWorksheet) and Decode(ws)
Decode(p) ==
    /\ pc[p] = "decode"
    /\ ws' = [ws EXCEPT ![p] = [id |-> allocated + 1, Row |-> parsed]]
    /\ allocated' = allocated + 1
    /\ runs' = [runs EXCEPT !.decode = @ + 1]
    /\ pc' = [pc EXCEPT ![p] = "check"]
    /\ UNCHANGED <<mutex, arg, ret, reads, returned>>
    /\ UNCHANGED <<sheetVars, writerVars, fileVars, adjustVars, codecVars, relsVars>>

\* if ok = f.checked[name]; !ok { SRcheckSheet; SRcheckRow; f.checked[name] = true }
Check(p) ==
    /\ pc[p] = "check"
    /\ IF checked
       THEN /\ pc' = [pc EXCEPT ![p] = "store"]
            /\ UNCHANGED <<ws, ret, runs, checked>>
       ELSE \E res \in {checkSheet(ws[p].Row)} :
            \E err \in {IF arg[p].skipCheckRow THEN "" ELSE SRcheckRow(res.Row)} :
                /\ ws' = [ws EXCEPT ![p].Row = res.Row]
                /\ runs' = [runs EXCEPT !.normalize = @ + 1]
                /\ IF err # ""
                   THEN /\ ret' = [ret EXCEPT ![p] = [ws |-> ws'[p], err |-> err]]
                        /\ pc' = [pc EXCEPT ![p] = "unlock"]
                        /\ checked' = checked
                   ELSE /\ checked' = TRUE
                        /\ pc' = [pc EXCEPT ![p] = "store"]
                        /\ ret' = ret
    /\ UNCHANGED <<mutex, arg, reads, allocated, returned>>
    /\ UNCHANGED <<sheetVars, writerVars, pkgTables, rels, contentTypes, cached, pkgSheet, adjustVars, codecVars, relsVars>>

\* f.Sheet.Store(name, ws)
Store(p) ==
    /\ pc[p] = "store"
    /\ cached' = ws[p]
    /\ ret' = [ret EXCEPT ![p] = [ws |-> ws[p], err |-> ""]]
    /\ runs' = [runs EXCEPT !.stored = @ + 1]
    /\ pc' = [pc EXCEPT ![p] = "unlock"]
    /\ UNCHANGED <<mutex, arg, ws, reads, allocated, returned>>
    /\ UNCHANGED <<sheetVars, writerVars, pkgTables, rels, contentTypes, checked, pkgSheet, adjustVars, codecVars, relsVars>>

\* the deferred f.Unlock() and the return to the caller
Unlock(p) ==
    /\ pc[p] = "unlock"
    /\ mutex' = 0
    /\ returned' = IF ret[p].err = "" THEN returned \cup {ret[p].ws} ELSE returned
    /\ pc' = [pc EXCEPT ![p] = "idle"]
    /\ UNCHANGED <<arg, ws, ret, reads, allocated, runs>>
    /\ UNCHANGED <<sheetVars, writerVars, fileVars, adjustVars, codecVars, relsVars>>

NextReader ==
    \E p \in Readers :
        \/ Call(p)
        \/ Lock(p)
        \/ GetPath(p)
        \/ Load(p)
        \/ Decode(p)
        \/ Check(p)
        \/ Store(p)
        \/ Unlock(p)

SpecReader == InitReader /\ [][NextReader]_vars

(***************************************************************************)
(* Claims about the worksheet reader.                                      *)
(***************************************************************************)
\* C9 as stated: the calls that succeeded all returned the worksheet that
\* the cache holds, and the decoding and SRcheckSheet have each run at most
\* once.
C9_ParsedAtMostOnce ==
    /\ returned \subseteq {cached}
    /\ runs.decode <= 1
    /\ runs.normalize <= 1

\* C9, amended: the calls that succeeded all returned the worksheet that the
\* cache holds, and at most one call has decoded, normalized and stored a
\* worksheet; once one has, no later call decodes or normalizes.
C9_StoredAtMostOnce ==
    /\ [](returned \subseteq {cached} /\ runs.stored <= 1)
    /\ [][runs.stored = 1 => (runs' = runs /\ cached' = cached)]_vars

\* two calls have succeeded, after a call that failed in SRcheckRow
C9_Witness ==
    /\ returned # {}
    /\ runs.normalize = 2
    /\ reads = 3
    /\ \A p \in Readers : pc[p] = "idle"

(***************************************************************************)
(* The structural adjuster: adjustHelper(sheet, dir, num, offset), which   *)
(* InsertRow, InsertCol, RemoveRow and RemoveCol call with offset 1 or -1. *)
(* It rewrites the rows and cells, the merged cells, the auto filter and   *)
(* the calculation chain, in this order, on a staged copy of the           *)
(* worksheet, and commits the copy when no reference failed to parse.      *)
(***************************************************************************)
MaxAdjusts == 2
MaxAdjustNum == 3

\* the position of the first ":" of s, 0 when there is none
ColonAt(s) ==
    IF \E i \in 1..Len(s) : s[i] = ":"
    THEN CHOOSE i \in 1..Len(s) : s[i] = ":" /\ \A j \in 1..(i - 1) : s[j] # ":"
    ELSE 0

\* strings.Split(strings.ReplaceAll(ref, "$", ""), ":"), its first two parts
rangeRefToCoordinates(ref) ==
    LET t    == StripDollar(ref)
        i    == ColonAt(t)
        rest == SubSeq(t, i + 1, Len(t))
        j    == ColonAt(rest)
    IN  IF i = 0
        THEN [c |-> <<0, 0, 0, 0>>, err |-> "ErrParameterInvalid", bad |-> <<>>]
        ELSE cellRefsToCoordinates(SubSeq(t, 1, i - 1),
                                   IF j = 0 THEN rest ELSE SubSeq(rest, 1, j - 1))

ShiftCoordinateAfter(p, num, offset) == IF p > num THEN p + offset ELSE p
\* one corner coordinate on the axis of the edit: an insertion moves what is
\* at or after num, a deletion what is after num
ShiftCoordinate(p, num, offset) ==
    IF offset > 0 THEN (IF p >= num THEN p + offset ELSE p)
    ELSE IF p > num THEN p + offset ELSE p

\* a deletion of the one line that a range spans on the axis of the edit
NeverCollapses(p1, p2, num, offset) == FALSE
Collapses(p1, p2, num, offset) == offset < 0 /\ p1 = num /\ p2 = num

AdjustEndsShiftsBoth(p1, p2, num, offset) ==
    [drop |-> Collapses(p1, p2, num, offset),
     p1 |-> IF p1 >= num THEN p1 + offset ELSE p1,
     p2 |-> IF p2 >= num THEN p2 + offset ELSE p2]
\* the two ends of a range on the axis of the edit; the range is dropped
\* when it spans exactly the deleted line
AdjustEnds(p1, p2, num, offset) ==
    IF Collapses(p1, p2, num, offset) THEN [drop |-> TRUE, p1 |-> p1, p2 |-> p2]
    ELSE [drop |-> FALSE,
          p1 |-> ShiftCoordinate(p1, num, offset),
          p2 |-> IF offset < 0 /\ p2 = num /\ p1 < num THEN p2 + offset
                 ELSE ShiftCoordinate(p2, num, offset)]

AdjustRangeRefNamesWhole(ref, dir, num, offset) ==
    The({ IF c.err # ""
          THEN [err |-> c.err, bad |-> ref, drop |-> FALSE, ref |-> ref]
          ELSE [err |-> "", bad |-> <<>>, drop |-> FALSE, ref |-> ref]
          : c \in {rangeRefToCoordinates(ref)} })
\* a range reference after the edit
AdjustRangeRef(ref, dir, num, offset) ==
    The({ LET s == sortCoordinates(c.c)
              e == IF dir = "rows" THEN AdjustEnds(s[2], s[4], num, offset)
                   ELSE AdjustEnds(s[1], s[3], num, offset)
              n == IF dir = "rows" THEN <<s[1], e.p1, s[3], e.p2>>
                   ELSE <<e.p1, s[2], e.p2, s[4]>>
          IN  IF c.err # ""
              THEN [err |-> c.err, bad |-> c.bad, drop |-> FALSE, ref |-> ref]
              ELSE [err |-> "", bad |-> <<>>, drop |-> e.drop,
                    ref |-> coordinatesToRangeRef(n).ref]
          : c \in {rangeRefToCoordinates(ref)} })

\* a single cell reference after the edit; it is dropped when it lies on the
\* deleted line
AdjustCellRef(ref, dir, num, offset) ==
    The({ LET q == IF dir = "rows" THEN p.row ELSE p.col
              n == ShiftCoordinate(q, num, offset)
          IN  IF p.err # ""
              THEN [err |-> p.err, bad |-> p.bad, drop |-> FALSE, ref |-> ref]
              ELSE [err |-> "", bad |-> <<>>, drop |-> offset < 0 /\ q = num,
                    ref |-> IF dir = "rows" THEN Ref(p.col, n) ELSE Ref(n, p.row)]
          : p \in {CellNameToCoordinates(ref)} })

\* a list of references from index i on, acc being the rewritten part; at a
\* reference that fails to parse the rest of the list stays as it is
RECURSIVE AdjustRefs(_, _, _, _, _, _, _)
AdjustRefs(range, refs, i, acc, dir, num, offset) ==
    IF i > Len(refs) THEN [err |-> "", bad |-> <<>>, refs |-> acc]
    ELSE The({ IF a.err # ""
               THEN [err |-> a.err, bad |-> a.bad,
                     refs |-> acc \o SubSeq(refs, i, Len(refs))]
               ELSE AdjustRefs(range, refs, i + 1,
                               IF a.drop THEN acc ELSE Append(acc, a.ref),
                               dir, num, offset)
               : a \in {IF range THEN AdjustRangeRef(refs[i], dir, num, offset)
                        ELSE AdjustCellRef(refs[i], dir, num, offset)} })

\* the cells of one row after the edit
RECURSIVE AdjustCells(_, _, _, _, _, _)
AdjustCells(cells, i, acc, dir, num, offset) ==
    IF i > Len(cells) THEN [err |-> "", bad |-> <<>>, cells |-> acc]
    ELSE The({ IF a.err # ""
               THEN [err |-> a.err, bad |-> a.bad,
                     cells |-> acc \o SubSeq(cells, i, Len(cells))]
               ELSE AdjustCells(cells, i + 1,
                                IF a.drop THEN acc
                                ELSE Append(acc, [cells[i] EXCEPT !.R = a.ref]),
                                dir, num, offset)
               : a \in {AdjustCellRef(cells[i].R, dir, num, offset)} })

\* the rows after the edit
RECURSIVE AdjustRows(_, _, _, _, _, _)
AdjustRows(rows, i, acc, dir, num, offset) ==
    IF i > Len(rows) THEN [err |-> "", bad |-> <<>>, rows |-> acc]
    ELSE The({ IF c.err # ""
               THEN [err |-> c.err, bad |-> c.bad,
                     rows |-> acc \o SubSeq(rows, i, Len(rows))]
               ELSE AdjustRows(rows, i + 1,
                               IF dir = "rows" /\ offset < 0 /\ rows[i].R = num
                               THEN acc
                               ELSE Append(acc,
                                      [R |-> IF dir = "rows"
                                             THEN ShiftCoordinate(rows[i].R, num, offset)
                                             ELSE rows[i].R,
                                       C |-> c.cells]),
                               dir, num, offset)
               : c \in {AdjustCells(rows[i].C, 1, <<>>, dir, num, offset)} })

TheWorksheet ==
    [rows |-> wsRows, merge |-> wsMergeCells, filter |-> wsAutoFilter,
     calc |-> calcChain]

\* the staged copy after the passes have run; the result of a pass counts
\* only when the ones before it returned no error
StageAdjust(w, dir, num, offset) ==
    The({ IF r.err # ""
          THEN [err |-> r.err, bad |-> r.bad,
                w |-> [w EXCEPT !.rows = r.rows]]
          ELSE IF m.err # ""
          THEN [err |-> m.err, bad |-> m.bad,
                w |-> [w EXCEPT !.rows = r.rows, !.merge = m.refs]]
          ELSE IF f.err # ""
          THEN [err |-> f.err, bad |-> f.bad,
                w |-> [w EXCEPT !.rows = r.rows, !.merge = m.refs]]
          ELSE [err |-> c.err, bad |-> c.bad,
                w |-> [rows |-> r.rows, merge |-> m.refs,
                       filter |-> IF f.refs = <<>> THEN <<>> ELSE f.refs[1],
                       calc |-> c.refs]]
          : r \in {AdjustRows(w.rows, 1, <<>>, dir, num, offset)},
            m \in {AdjustRefs(TRUE, w.merge, 1, <<>>, dir, num, offset)},
            f \in {AdjustRefs(TRUE, IF w.filter = <<>> THEN <<>> ELSE <<w.filter>>,
                              1, <<>>, dir, num, offset)},
            c \in {AdjustRefs(FALSE, w.calc, 1, <<>>, dir, num, offset)} })

\* the worksheet the call leaves behind
CommitsAlways(before, staged) == staged.w
Commit(before, staged) == IF staged.err # "" THEN before ELSE staged.w

adjustHelper(name, dir, num, offset) ==
    /\ adjusted.calls < MaxAdjusts
    /\ IF ~getSheetXMLPath(name)
       THEN /\ adjusted' = [calls |-> adjusted.calls + 1, err |-> newNoExistSheetError(name),
                            bad |-> <<>>]
            /\ UNCHANGED <<wsRows, wsMergeCells, wsAutoFilter, calcChain>>
       ELSE \E staged \in {StageAdjust(TheWorksheet, dir, num, offset)} :
            \E w \in {Commit(TheWorksheet, staged)} :
                /\ adjusted' = [calls |-> adjusted.calls + 1, err |-> staged.err,
                                bad |-> staged.bad]
                /\ wsRows' = w.rows
                /\ wsMergeCells' = w.merge
                /\ wsAutoFilter' = w.filter
                /\ calcChain' = w.calc
    /\ UNCHANGED <<sheetVars, writerVars, fileVars, readerVars, codecVars, relsVars>>

RangeRef(c1, r1, c2, r2) == Ref(c1, r1) \o <<":">> \o Ref(c2, r2)

\* worksheets with well-formed references and with the malformed ones
\* "A:B1", "A1:B" and "x"
MergeCellsInputs ==
    { <<>>, <<RangeRef(1, 1, 2, 2)>>, <<RangeRef(1, 1, 2, 2), <<"A", ":", "B", "1">>>>,
      <<RangeRef(1, 2, 3, 2)>>, <<RangeRef(1, 2, 2, 3)>>,
      <<RangeRef(1, 2, 2, 2), RangeRef(1, 2, 2, 3), RangeRef(2, 2, 2, 2)>> }
AutoFilterInputs == { <<>>, RangeRef(1, 1, 2, 3), <<"A", "1", ":", "B">> }
CalcChainInputs == { <<>>, <<Ref(2, 2)>>, <<Ref(2, 2), <<"x">>>> }
RowsInput ==
    << [R |-> 1, C |-> <<GridCell(1, 1, "a")>>],
       [R |-> 2, C |-> <<GridCell(1, 2, "b"), GridCell(2, 2, "c")>>] >>

InitAdjust ==
    /\ SheetIdle /\ WriterIdle /\ FileIdle /\ ReaderIdle /\ CodecIdle /\ RelsIdle
    /\ wsMergeCells \in MergeCellsInputs
    /\ wsAutoFilter \in AutoFilterInputs
    /\ calcChain \in CalcChainInputs
    /\ wsRows = RowsInput
    /\ adjusted = NotAdjusted

\* the positions and offsets of InsertRow, RemoveRow, InsertCol, RemoveCol,
\* and position 0 with offset 0 as the tests call adjustHelper
AdjustInputs == ((1..MaxAdjustNum) \X {1, -1}) \cup {<<0, 0>>}

AdjustStep ==
    \E name \in SheetNames, dir \in {"rows", "columns"}, in \in AdjustInputs :
        adjustHelper(name, dir, in[1], in[2])

NextAdjust == AdjustStep

SpecAdjust == InitAdjust /\ [][NextAdjust]_vars

(***************************************************************************)
(* Claims about the structural adjuster.                                   *)
(***************************************************************************)
\* C10: a call of adjustHelper that returns an error leaves the merged
\* cells, the auto filter, the calculation chain and the rows and cells of
\* the worksheet as they were before the call.
C10_FailedAdjustChangesNothing ==
    [][(adjusted'.calls = adjusted.calls + 1 /\ adjusted'.err # "") =>
           UNCHANGED <<wsMergeCells, wsAutoFilter, calcChain, wsRows>>]_vars

\* a call has failed at the reference "A:B1" of the second merged cell, in a
\* worksheet whose rows and first merged cell an insertion of row 1 rewrites
\* before it reaches that reference
C10_Witness ==
    /\ adjusted = [calls |-> 1, err |-> "CellNameToCoordinates", bad |-> <<"A">>]
    /\ wsMergeCells = <<RangeRef(1, 1, 2, 2), <<"A", ":", "B", "1">>>>
    /\ wsRows = RowsInput
    /\ StageAdjust(TheWorksheet, "rows", 1, 1).w.rows # wsRows
    /\ StageAdjust(TheWorksheet, "rows", 1, 1).w.merge[1] = RangeRef(1, 2, 2, 3)

\* the corners of a range reference, as the adjuster splits it
FirstCorner(ref) == SubSeq(StripDollar(ref), 1, ColonAt(StripDollar(ref)) - 1)
SecondCorner(ref) ==
    SubSeq(StripDollar(ref), ColonAt(StripDollar(ref)) + 1, Len(StripDollar(ref)))
Unparsable(cell) == SplitCellName(cell).err # ""
\* the fragment of a range reference that cannot be parsed, <<>> if none
BadFragment(ref) ==
    IF Unparsable(FirstCorner(ref)) THEN FirstCorner(ref)
    ELSE IF Unparsable(SecondCorner(ref)) THEN SecondCorner(ref)
    ELSE <<>>
\* the fragments that cannot be parsed, in the order merged cells, auto
\* filter, calculation chain
BadFragments ==
    SelectSeq([i \in 1..Len(wsMergeCells) |-> BadFragment(wsMergeCells[i])]
              \o (IF wsAutoFilter = <<>> THEN <<>> ELSE <<BadFragment(wsAutoFilter)>>)
              \o [i \in 1..Len(calcChain) |->
                     IF Unparsable(calcChain[i]) THEN calcChain[i] ELSE <<>>],
              LAMBDA b : b # <<>>)
AdjustReturned == adjusted'.calls = adjusted.calls + 1
SheetMissing == \E name \in SheetNames : adjusted'.err = newNoExistSheetError(name)

\* C11: a call of adjustHelper for an existing sheet returns an error exactly
\* when a reference of the merged cells, the auto filter or the calculation
\* chain cannot be parsed, for every position and offset, and the error names
\* the unparsable fragment: the first corner of a range when that is bad, the
\* second corner when only that is bad, the whole entry of the calc chain.
C11_ErrorNamesFragment ==
    [][(AdjustReturned /\ ~SheetMissing) =>
           IF BadFragments = <<>> THEN adjusted'.err = ""
           ELSE /\ adjusted'.err = "CellNameToCoordinates"
                /\ adjusted'.bad = BadFragments[1]]_vars

\* a call with position 0 and offset 0 would fail at the second corner of
\* the auto filter "A1:B", and a call has failed naming "B"
C11_Witness ==
    /\ adjusted.calls > 0 /\ adjusted.bad = <<"B">>
    /\ wsAutoFilter = <<"A", "1", ":", "B">>
    /\ StageAdjust(TheWorksheet, "rows", 0, 0).bad = <<"B">>
    /\ BadFragments[1] = <<"B">>

\* the corners <<col1, row1, col2, row2>> of a well-formed range reference,
\* its two ends on the axis of an edit and its two ends on the other axis
Corners(ref) == rangeRefToCoordinates(ref).c
AxisEnds(ref, dir) ==
    IF dir = "rows" THEN <<Corners(ref)[2], Corners(ref)[4]>>
    ELSE <<Corners(ref)[1], Corners(ref)[3]>>
OtherEnds(ref, dir) == AxisEnds(ref, IF dir = "rows" THEN "columns" ELSE "rows")
\* the merged cells whose whole extent on the axis is the line num
OnLine(ref, dir, num) == AxisEnds(ref, dir) = <<num, num>>
Survivors(dir, num) ==
    SelectSeq(wsMergeCells, LAMBDA ref : ~OnLine(ref, dir, num))
\* a call of adjustHelper for Sheet1 that returned nil
Adjusted(dir, num, offset) ==
    adjustHelper("Sheet1", dir, num, offset) /\ adjusted'.err = ""

\* C12: an insertion of one line at num keeps every merged cell, adds one to
\* each of its corner coordinates on the axis that is at or after num,
\* leaves those before num, and leaves the other axis as it is.
C12_InsertShiftsMergeCells ==
    [][\A dir \in {"rows", "columns"}, num \in 1..MaxAdjustNum :
          Adjusted(dir, num, 1) =>
              /\ Len(wsMergeCells') = Len(wsMergeCells)
              /\ \A i \in 1..Len(wsMergeCells) :
                    /\ OtherEnds(wsMergeCells'[i], dir) = OtherEnds(wsMergeCells[i], dir)
                    /\ \A k \in 1..2 :
                          AxisEnds(wsMergeCells'[i], dir)[k] =
                              IF AxisEnds(wsMergeCells[i], dir)[k] >= num
                              THEN AxisEnds(wsMergeCells[i], dir)[k] + 1
                              ELSE AxisEnds(wsMergeCells[i], dir)[k]]_vars

\* A2:B3 has become A3:B4 by one call (the insertion of a row at 2)
C12_Witness ==
    /\ adjusted = [calls |-> 1, err |-> "", bad |-> <<>>]
    /\ wsMergeCells = <<RangeRef(1, 3, 2, 4)>>
    /\ Len(wsRows) = 2 /\ wsRows[2].R = 3

\* C13: a deletion of the line num keeps first and takes one from last for
\* a merged cell that spans num with at least two lines, takes one from both
\* for a merged cell beyond num, leaves a merged cell before num, and never
\* changes the other axis.
C13_DeleteShiftsMergeCells ==
    [][\A dir \in {"rows", "columns"}, num \in 1..MaxAdjustNum :
          Adjusted(dir, num, -1) =>
              /\ Len(wsMergeCells') = Len(Survivors(dir, num))
              /\ \A i \in 1..Len(Survivors(dir, num)) :
                    LET old == AxisEnds(Survivors(dir, num)[i], dir)
                        new == AxisEnds(wsMergeCells'[i], dir)
                    IN  /\ OtherEnds(wsMergeCells'[i], dir)
                               = OtherEnds(Survivors(dir, num)[i], dir)
                        /\ (old[1] <= num /\ num <= old[2] /\ old[1] < old[2])
                               => new = <<old[1], old[2] - 1>>
                        /\ old[1] > num => new = <<old[1] - 1, old[2] - 1>>
                        /\ old[2] < num => new = old]_vars

\* A2:B3 has become A2:A3 by one call (the deletion of column 1 or 2)
C13_Witness ==
    /\ adjusted = [calls |-> 1, err |-> "", bad |-> <<>>]
    /\ wsMergeCells = <<RangeRef(1, 2, 1, 3)>>

\* C14: a deletion of the line num returns nil and removes from the merged
\* cells exactly the entries whose whole extent on the axis is that line;
\* the other entries stay, in their order.
C14_CollapsedMergeCellsRemoved ==
    [][\A dir \in {"rows", "columns"}, num \in 1..MaxAdjustNum :
          (adjustHelper("Sheet1", dir, num, -1) /\ BadFragments = <<>>) =>
              /\ adjusted'.err = ""
              /\ Len(wsMergeCells') = Len(Survivors(dir, num))
              /\ \A i \in 1..Len(wsMergeCells') :
                    /\ OtherEnds(wsMergeCells'[i], dir)
                           = OtherEnds(Survivors(dir, num)[i], dir)
                    /\ AxisEnds(wsMergeCells'[i], dir)[1]
                           <= AxisEnds(wsMergeCells'[i], dir)[2]]_vars

\* of A2:B2, A2:B3, B2:B2 the first and the last have been removed by one
\* call (the deletion of row 2), and A2:B3 has become A2:B2
C14_Witness ==
    /\ adjusted = [calls |-> 1, err |-> "", bad |-> <<>>]
    /\ wsMergeCells = <<RangeRef(1, 2, 2, 2)>>
    /\ Len(wsRows) = 1

(***************************************************************************)
(* One File used by both operations: goroutines read worksheets with       *)
(* SRWorkSheetReader while rows and columns are inserted and removed with  *)
(* adjustHelper.                                                           *)
(***************************************************************************)
MaxOps == 2

InitFile ==
    /\ parsed \in ReaderInputs /\ sheet = <<>> /\ phase = "idle"
    /\ WriterIdle /\ FileIdle /\ ReaderIdle /\ CodecIdle /\ RelsIdle
    /\ wsMergeCells = <<RangeRef(1, 2, 2, 3)>>
    /\ wsAutoFilter = RangeRef(1, 1, 2, 3)
    /\ calcChain = <<Ref(2, 2)>>
    /\ wsRows = RowsInput
    /\ adjusted = NotAdjusted

\* at most MaxOps calls of the two operations together
NextFile ==
    \/ reads + adjusted.calls < MaxOps /\ NextAdjust
    \/ NextReader /\ reads' + adjusted.calls <= MaxOps

SpecFile == InitFile /\ [][NextFile]_vars

\* a step of SRWorkSheetReader taken by goroutine p
ReaderStep(p) ==
    \/ Call(p) \/ Lock(p) \/ GetPath(p) \/ Load(p)
    \/ Decode(p) \/ Check(p) \/ Store(p) \/ Unlock(p)

\* the worksheets, the worksheet cache, the checked map and the calc chain
FileUnchanged ==
    UNCHANGED <<parsed, cached, checked, returned, wsRows, wsMergeCells,
                wsAutoFilter, calcChain>>

\* C15: adjustHelper for a sheet name that is not in the registry returns
\* "sheet <name> is not exist", every step of a call of SRWorkSheetReader for
\* such a name up to its return leaves the worksheets, the cache, the checked
\* map and the calc chain as they were, and that call returns no worksheet
\* and the same error.
C15_MissingSheetChangesNothing ==
    [][\A name \in SheetNames : name # "Sheet1" =>
          /\ \A dir \in {"rows", "columns"}, in \in AdjustInputs :
                 adjustHelper(name, dir, in[1], in[2]) =>
                     /\ adjusted'.err = newNoExistSheetError(name)
                     /\ FileUnchanged
          /\ \A p \in Readers :
                 (ReaderStep(p) /\ arg'[p].sheet = name) =>
                     /\ FileUnchanged
                     /\ pc'[p] \notin {"load", "decode", "check", "store"}
                     /\ Unlock(p) =>
                            ret[p] = [ws |-> NoWorksheet,
                                      err |-> newNoExistSheetError(name)]]_vars

\* an adjustment and a read of SheetN have both returned the error, and the
\* worksheet still has its merged cell, auto filter and calc chain
C15_Witness ==
    /\ adjusted.calls = 1 /\ adjusted.err = "sheet SheetN is not exist"
    /\ wsMergeCells = <<RangeRef(1, 2, 2, 3)>> /\ calcChain = <<Ref(2, 2)>>
    /\ reads = 1
    /\ \E p \in Readers :
           /\ pc[p] = "idle" /\ arg[p].sheet = "SheetN"
           /\ ret[p].err = "sheet SheetN is not exist"

(***************************************************************************)
(* Calls of the coordinate codec of lib.go.  A call from the idle state    *)
(* takes its argument from the inputs below; a call that follows a call of *)
(* the inverse function that succeeded takes that call's result.           *)
(***************************************************************************)
MaxCodecColumn == 28
MaxCodecRow == 11

\* A..AB, ZY..AAB, XFC and XFD, and the numbers next to the valid range
CodecColumns ==
    (0..MaxCodecColumn) \cup {701, 702, 703, 704}
        \cup {MaxColumns - 1, MaxColumns, MaxColumns + 1}
CodecRows == (0..MaxCodecRow) \cup {TotalRows - 1, TotalRows, TotalRows + 1}

\* a column name in lower case, and with every other letter in lower case
ToLower(s) ==
    [i \in 1..Len(s) |-> IF IsUpper(s[i]) THEN LowerSeq[LetterVal(s[i])] ELSE s[i]]
ToUpper(s) ==
    [i \in 1..Len(s) |-> IF IsLower(s[i]) THEN UpperSeq[LetterVal(s[i])] ELSE s[i]]
AlternateCase(s) ==
    [i \in 1..Len(s) |-> IF i % 2 = 1 THEN ToLower(s)[i] ELSE s[i]]

\* a string of n characters c
Rep(c, n) == [i \in 1..n |-> c]

\* cell names that no call of the codec has produced: well-formed ones, ones
\* with the letter, dollar and digit parts missing or out of place, ones
\* beyond the last row and the last column, and ones whose column has
\* fourteen letters (26^14 > 2^63)
CellNameInputs ==
    { <<"A", "1">>, <<"a", "$", "2">>, <<"$", "A", "$", "1">>,
      <<"$", "A", "B", "1", "2">>,
      <<"X", "F", "D", "1", "0", "4", "8", "5", "7", "6">>,
      <<"A", "0", "1">>, <<>>, <<"A">>, <<"1">>, <<"$">>, <<"$", "1">>,
      <<"A", "0">>, <<"A", "-", "1">>, <<"A", "+", "5">>,
      <<"A", "1", "B", "2">>, <<"A", "$", "B", "1">>,
      <<"$", "$", "A", "1">>, <<"A", "$", "$", "1">>, <<"1", "A">>,
      <<"A", " ", "1">>, <<"A", "1", "x">>, <<"X", "F", "E", "1">>,
      <<"A", "1", "0", "4", "8", "5", "7", "7">>,
      <<"A", "2", "1", "4", "7", "4", "8", "3", "6", "4", "8">>,
      <<"A", "9", "9", "9", "9", "9", "9", "9", "9", "9", "9", "9", "9", "9", "9", "9", "9", "9", "9", "9", "9">>,
      <<"G", "K", "G", "W", "B", "Y", "L", "W", "R", "X", "T", "L", "P", "K", "1">>,
      <<"G", "K", "G", "W", "B", "Y", "L", "W", "R", "X", "T", "L", "P", "P", "7">>,
      <<"G", "K", "G", "W", "B", "Y", "L", "W", "R", "X", "T", "L", "P", "U", "3">> }

\* column names that no call of the codec has produced, up to sixteen letters
ColumnNameInputs ==
    { <<"A">>, <<"x", "f", "D">>, <<"X", "F", "D">>, <<"X", "F", "E">>,
      <<"Z", "Z", "Z", "Z", "Z", "Z">>, <<>>, <<"A", "1">>, <<"$", "A">>,
      <<"G", "K", "G", "W", "B", "Y", "L", "W", "R", "X", "T", "L", "P", "K">>,
      <<"G", "K", "G", "W", "B", "Y", "L", "W", "R", "X", "T", "L", "P", "P">>,
      <<"G", "K", "G", "W", "B", "Y", "L", "W", "R", "X", "T", "L", "P", "U">>, Rep("A", 7), Rep("A", 13), Rep("Z", 14),
      Rep("a", 15), Rep("M", 16) }

AllColumns == 0..(MaxColumns + 1)

InitCodec ==
    /\ SheetIdle /\ WriterIdle /\ FileIdle /\ ReaderIdle /\ AdjustIdle /\ RelsIdle
    /\ codec = NoCodecCall

CodecCall(op, in, out) ==
    /\ codec' = [op |-> op, in |-> in, out |-> out, of |-> codec.in,
                 rt |-> codec.op # ""]
    /\ UNCHANGED <<sheetVars, writerVars, fileVars, readerVars, adjustVars, relsVars>>

CallCoordinatesToCellName ==
    /\ codec.op = ""
    /\ \E c \in CodecColumns, r \in CodecRows, abs \in BOOLEAN :
           CodecCall("CoordinatesToCellName",
                     [col |-> c, row |-> r, abs |-> abs, name |-> <<>>],
                     CoordinatesToCellName(c, r, abs))

CallCellNameToCoordinates ==
    /\ codec.op \in {"", "CoordinatesToCellName"}
    /\ codec.out.err = ""
    /\ \E cell \in IF codec.op = "" THEN CellNameInputs ELSE {codec.out.name} :
           CodecCall("CellNameToCoordinates", [NoCodecArg EXCEPT !.name = cell],
                     CellNameToCoordinates(cell))

CallSplitCellName ==
    /\ codec.op = ""
    /\ \E cell \in CellNameInputs :
           CodecCall("SplitCellName", [NoCodecArg EXCEPT !.name = cell],
                     SplitCellName(cell))

CallColumnNumberToName ==
    /\ codec.op \in {"", "ColumnNameToNumber"}
    /\ codec.out.err = "" /\ ~codec.rt
    /\ \E n \in IF codec.op = "" THEN AllColumns ELSE {codec.out.col} :
           CodecCall("ColumnNumberToName", [NoCodecArg EXCEPT !.col = n],
                     ColumnNumberToName(n))

CallColumnNameToNumber ==
    /\ codec.op \in {"", "ColumnNumberToName"}
    /\ codec.out.err = "" /\ ~codec.rt
    /\ \E name \in IF codec.op = "" THEN ColumnNameInputs
                   ELSE {codec.out.name, ToLower(codec.out.name),
                         AlternateCase(codec.out.name)} :
           CodecCall("ColumnNameToNumber", [NoCodecArg EXCEPT !.name = name],
                     ColumnNameToNumber(name))

NextCodec ==
    \/ CallCoordinatesToCellName
    \/ CallCellNameToCoordinates
    \/ CallSplitCellName
    \/ CallColumnNumberToName
    \/ CallColumnNameToNumber

SpecCodec == InitCodec /\ [][NextCodec]_vars

(***************************************************************************)
(* Claims about the coordinate codec.                                      *)
(***************************************************************************)
\* C16: CoordinatesToCellName succeeds for every column in 1..MaxColumns and
\* row in 1..TotalRows, with and without the absolute flag, and
\* CellNameToCoordinates of its result returns that column and row with no
\* error.
C16_CellNameRoundTrip ==
    /\ (/\ codec.op = "CoordinatesToCellName"
        /\ codec.in.col \in 1..MaxColumns /\ codec.in.row \in 1..TotalRows)
           => codec.out.err = "" /\ codec.out.name # <<>>
    /\ (codec.op = "CellNameToCoordinates" /\ codec.rt)
           => /\ codec.out.err = ""
              /\ codec.out.col = codec.of.col
              /\ codec.out.row = codec.of.row

\* the absolute name of the last cell of the grid has been decoded
C16_Witness ==
    /\ codec.op = "CellNameToCoordinates" /\ codec.rt
    /\ codec.of = [col |-> MaxColumns, row |-> TotalRows, abs |-> TRUE, name |-> <<>>]
    /\ codec.in.name = <<"$", "X", "F", "D", "$", "1", "0", "4", "8", "5", "7", "6">>
    /\ codec.out.col = MaxColumns /\ codec.out.row = TotalRows

\* C17: ColumnNumberToName succeeds for every number in 1..MaxColumns with a
\* non-empty string of upper-case letters, ColumnNameToNumber of that string
\* in any letter case returns the number, and ColumnNumberToName of the
\* number that a name of at most three letters decodes to returns the name
\* in upper case.
C17_ColumnNameRoundTrip ==
    /\ (codec.op = "ColumnNumberToName" /\ codec.in.col \in 1..MaxColumns)
           => /\ codec.out.err = "" /\ codec.out.name # <<>>
              /\ \A i \in 1..Len(codec.out.name) : IsUpper(codec.out.name[i])
    /\ (codec.op = "ColumnNameToNumber" /\ codec.rt)
           => codec.out.err = "" /\ codec.out.col = codec.of.col
    /\ (codec.op = "ColumnNumberToName" /\ codec.rt /\ Len(codec.of.name) <= 3)
           => codec.out.err = "" /\ codec.out.name = ToUpper(codec.of.name)

\* the name of the last column has been decoded from lower case
C17_Witness ==
    /\ codec.op = "ColumnNameToNumber" /\ codec.rt
    /\ codec.of.col = MaxColumns
    /\ codec.in.name = <<"x", "f", "d">>
    /\ codec.out.col = MaxColumns

\* the form of a cell name: an optional '$', one or more letters, an optional
\* '$', one or more digits that form a positive integer
CellNameForm(s) ==
    \E d1 \in {0, 1}, d2 \in {0, 1}, l \in 1..Len(s) :
        /\ d1 = 1 => s[1] = "$"
        /\ l > d1
        /\ \A i \in (d1 + 1)..l : IsUpper(s[i]) \/ IsLower(s[i])
        /\ l + d2 < Len(s)
        /\ d2 = 1 => s[l + 1] = "$"
        /\ \A i \in (l + d2 + 1)..Len(s) : IsDigit(s[i])
        /\ \E i \in (l + d2 + 1)..Len(s) : s[i] # "0"

\* C18: SplitCellName returns the invalid-cell-name error for every string
\* that has not the form of a cell name, and a column name it returns
\* without error is a non-empty string of letters.
C18_SplitRejectsMalformed ==
    codec.op = "SplitCellName" =>
        /\ ~CellNameForm(codec.in.name) => codec.out.err = "InvalidCellName"
        /\ codec.out.err = "" =>
               /\ codec.out.col # <<>>
               /\ \A i \in 1..Len(codec.out.col) :
                      IsUpper(codec.out.col[i]) \/ IsLower(codec.out.col[i])

\* C19: ColumnNameToNumber of a string of letters returns an error or a
\* number in 1..MaxColumns, and CellNameToCoordinates returns without error
\* only a column in 1..MaxColumns and a row in 1..TotalRows.
C19_ResultsInRange ==
    /\ (/\ codec.op = "ColumnNameToNumber"
        /\ \A i \in 1..Len(codec.in.name) :
               IsUpper(codec.in.name[i]) \/ IsLower(codec.in.name[i]))
           => codec.out.err # "" \/ codec.out.col \in 1..MaxColumns
    /\ (codec.op = "CellNameToCoordinates" /\ codec.out.err = "")
           => /\ codec.out.col \in 1..MaxColumns
              /\ codec.out.row \in 1..TotalRows

(***************************************************************************)
(* A claim about the sheet grid normalizer on a dense sheet.               *)
(***************************************************************************)
\* rows numbered 1..N in increasing order, each number once, no row r="0"
Dense(rows) == \A i \in 1..Len(rows) : rows[i].R = i

\* C20: checkSheet/SRcheckSheet on a dense sheet ends without a panic and
\* leaves the identical sheet: the same number of rows, the same row numbers
\* and in every row the same cells in the same order.
C20_DenseSheetUnchanged ==
    (phase # "decoded" /\ Dense(parsed))
        => /\ phase = "checked"
           /\ Len(sheet) = Len(parsed)
           /\ \A i \in 1..Len(parsed) :
                  sheet[i].R = parsed[i].R /\ sheet[i].C = parsed[i].C
           /\ sheet = parsed

\* a dense sheet of MaxParsedRows rows, with and without cells, was checked
C20_Witness ==
    /\ phase = "checked" /\ Dense(parsed)
    /\ Len(parsed) = MaxParsedRows
    /\ parsed[1].C # <<>> /\ parsed[2].C = <<>>
    /\ sheet = parsed

(***************************************************************************)
(* Further claims about the streaming writer.                              *)
(***************************************************************************)
CellToks(toks) == SelectSeq(toks, LAMBDA tok : tok.t = "c")

\* the indexes (0-based, as in the loop of SetRow) of the entries of a value
\* list that are not nil
RECURSIVE NonNil(_, _)
NonNil(values, i) ==
    IF i > Len(values) THEN <<>>
    ELSE (IF values[i].k = "nil" /\ ~values[i].cell THEN <<>> ELSE <<i - 1>>)
         \o NonNil(values, i + 1)

\* C21: the cells a call of SetRow writes are, in order, non-nil entries of
\* the value list, all of them when the call returns nil, and the cell of
\* the entry at index j has its value and the reference of column
\* startColumn + j of the row; a nil entry is no cell and shifts no other.
C21_NilLeavesGap ==
    [][\A in \in SetRowInputs :
          SetRow(in[1], in[2], in[3]) =>
              \E p \in {CellNameToCoordinates(in[1])} :
              \E cells \in {CellToks(Appended)} :
              \E idx \in {NonNil(in[2], 1)} :
                  /\ Len(cells) <= Len(idx)
                  /\ last'.err = "" => Len(cells) = Len(idx)
                  /\ \A k \in 1..Len(cells) :
                         /\ cells[k].r = Ref(p.col + idx[k], p.row)
                         /\ cells[k].v = in[2][idx[k] + 1].v]_vars

\* the row <nil, "c", nil, Cell "d"> set at B2 has been written as the cells
\* C2 and E2
C21_Witness ==
    /\ last = [op |-> "SetRow", err |-> ""]
    /\ \E toks \in {CellToks(Stream)} :
           /\ Len(toks) = 2
           /\ toks[1].r = Ref(4, 2) /\ toks[1].v = "c"
           /\ toks[2].r = Ref(6, 2) /\ toks[2].v = "d"

\* the value of the first cell of the output with the reference ref, "" when
\* there is none
CellValueAt(toks, ref) ==
    The({ IF cs = <<>> THEN "" ELSE cs[1].v :
          cs \in {SelectSeq(toks, LAMBDA tok : tok.t = "c" /\ tok.r = ref)} })
Min(a, b) == IF a < b THEN a ELSE b
Max(a, b) == IF a > b THEN a ELSE b

\* C22: the table a call of AddTable that returns nil registers has the
\* reference of the range with its corners sorted, extended by one row at
\* the bottom when both corners are on one row, so that it spans at least two
\* rows; and it has one column per column of the range, in column order,
\* named with the value of the cell written at that column in the first row
\* of the range.
C22_TableFromOutput ==
    [][\A in \in AddTableInputs :
          (AddTable(in[1], in[2], in[3]) /\ last'.err = "") =>
              \E a \in {CellNameToCoordinates(in[1])} :
              \E b \in {CellNameToCoordinates(in[2])} :
              \E table \in {pkgTables'[Len(pkgTables')]} :
              \E top \in {Min(a.row, b.row)} :
              \E left \in {Min(a.col, b.col)} :
              \E right \in {Max(a.col, b.col)} :
              \E bottom \in {IF a.row = b.row THEN a.row + 1 ELSE Max(a.row, b.row)} :
                  /\ Len(pkgTables') = Len(pkgTables) + 1
                  /\ bottom > top
                  /\ table.Ref = RangeRef(left, top, right, bottom)
                  /\ Len(table.TableColumns) = right - left + 1
                  /\ \A k \in 1..(right - left + 1) :
                         table.TableColumns[k]
                             = CellValueAt(Stream, Ref(left + k - 1, top))]_vars

\* the tables A1:B2, of the range B1:A1, and B1:C2, of the range C2:B1, have
\* been registered with the names written in row 1
C22_Witness ==
    /\ Len(pkgTables) = 2
    /\ pkgTables[1].Ref = RangeRef(1, 1, 2, 2)
    /\ pkgTables[1].TableColumns = <<"a", "b">>
    /\ pkgTables[2].Ref = RangeRef(2, 1, 3, 2)
    /\ pkgTables[2].TableColumns = <<"b", "">>

\* the relationships of the worksheet that point to a table
TableRels == SelectSeq(rels, LAMBDA r : r.Type = "table")

\* C23: a writer has at most one table: once a call of AddTable has returned
\* nil, there is exactly one table part, one table relationship and one
\* tablePart reference for the worksheet.
C23_OneTablePerWriter ==
    /\ Len(pkgTables) <= 1
    /\ Len(TableRels) <= 1
    /\ Len(pkgTables) = 1 => (Len(TableRels) = 1 /\ tableParts # 0)

(***************************************************************************)
(* The bufferedWriter on its own: a writer with the zero value, and one    *)
(* action per method, called in any order.  rawData is the writer, calls   *)
(* counts the calls, last names the method called last.                    *)
(***************************************************************************)
MaxBufferCalls == 6

\* the arguments of Write and WriteString
BufferInputs ==
    { <<Tok("sheetData", 0, <<>>, "")>>,
      <<Tok("row", 1, <<>>, ""), Tok("/row", 0, <<>>, "")>> }

InitBuffer ==
    /\ SheetIdle /\ WriterIdle /\ FileIdle /\ ReaderIdle /\ AdjustIdle /\ CodecIdle /\ RelsIdle

BufferCall(op, bw) ==
    /\ calls < MaxBufferCalls
    /\ calls' = calls + 1
    /\ rawData' = bw
    /\ last' = [op |-> op, err |-> ""]
    /\ UNCHANGED <<sheetWritten, cols, mergeCellsCount, mergeCells, tableParts, called>>
    /\ UNCHANGED <<sheetVars, fileVars, readerVars, adjustVars, codecVars, relsVars>>

BwWriteCall(p) == BufferCall("Write", BwWrite(rawData, p))

BwWriteStringCall(p) == BufferCall("WriteString", BwWrite(rawData, p))

BwSyncCall == \E tmpOk \in BOOLEAN : BufferCall("Sync", BwSync(rawData, tmpOk))

BwFlushCall == BufferCall("Flush", BwFlush(rawData))

BwReaderCall == BufferCall("Reader", BwReader(rawData).bw)

NextBuffer ==
    \/ \E p \in BufferInputs : BwWriteCall(p)
    \/ \E p \in BufferInputs : BwWriteStringCall(p)
    \/ BwSyncCall
    \/ BwFlushCall
    \/ BwReaderCall

SpecBuffer == InitBuffer /\ [][NextBuffer]_vars

\* what Reader() would yield for a writer
Content(bw) == BwReader(bw).content

\* a call of Write or WriteString appends its argument to what Reader()
\* yields, and no other call changes what Reader() yields
ContentIsLog ==
    /\ \A p \in BufferInputs :
         (BwWriteCall(p) \/ BwWriteStringCall(p))
             => Content(rawData') = Content(rawData) \o p
    /\ (BwSyncCall \/ BwFlushCall \/ BwReaderCall)
             => Content(rawData') = Content(rawData)

\* C24 as stated: Reader() yields the concatenation of everything written,
\* in write order, and the buffer is moved to the temp file only when it
\* has reached StreamChunkSize.
C24_SpillsOnlyAtChunkSize ==
    [][/\ ContentIsLog
       /\ rawData'.tmp # rawData.tmp => Len(rawData.buf) >= StreamChunkSize]_vars

\* C24: Reader() yields the concatenation of everything written, in write
\* order, however often the buffer was moved to the temp file; the temp file
\* is created only by a Sync that finds StreamChunkSize or more in the
\* buffer, and once it exists Sync at that size, Flush and Reader move the
\* whole buffer to it, whatever its size for the last two.
C24_AppendOnlyLog ==
    [][/\ ContentIsLog
       /\ rawData'.hasTmp # rawData.hasTmp
            => BwSyncCall /\ Len(rawData.buf) >= StreamChunkSize
       /\ rawData'.tmp # rawData.tmp
            => /\ rawData'.hasTmp /\ rawData'.buf = <<>>
               /\ rawData'.tmp = rawData.tmp \o rawData.buf
               /\ \/ BwSyncCall /\ Len(rawData.buf) >= StreamChunkSize
                  \/ BwFlushCall \/ BwReaderCall]_vars

\* Reader() after the buffer went to the temp file more than once, the last
\* time with less than StreamChunkSize in it
C24_Witness ==
    /\ last.op = "Reader"
    /\ rawData.hasTmp /\ rawData.buf = <<>>
    /\ Len(rawData.tmp) = StreamChunkSize + 1

(***************************************************************************)
(* Claims about the overlay pass, continued.                               *)
(***************************************************************************)
\* C25: a malformed reference is never skipped silently: normalizing a
\* worksheet whose row-zero overlay holds a cell with an invalid reference
\* does not end normally (it reports the reference).
C25_MalformedOverlayReported ==
    phase = "checked" =>
        \A k \in 1..Len(OverlayRow(parsed).C) :
            CellNameToCoordinates(OverlayRow(parsed).C[k].R).err = ""

\* the ordinary source cells declared at (col, row) have no value
NoSourceValueAt(rows, col, row) ==
    \A i \in 1..Len(rows) : \A j \in 1..Len(rows[i].C) :
        \E q \in {CellNameToCoordinates(rows[i].C[j].R)} :
            (rows[i].R = row /\ q.err = "" /\ q.col = col /\ q.row = row)
                => ~hasValue(rows[i].C[j])

\* the grid holds cell at (col, row): at the position of the column in the
\* row's cell list, or in a cell of the row declared at that column
GridHolds(data, col, row, cell) ==
    /\ row <= Len(data)
    /\ \/ col <= Len(data[row].C) /\ data[row].C[col] = cell
       \/ \E j \in 1..Len(data[row].C) :
             /\ data[row].C[j] = cell
             /\ \E q \in {CellNameToCoordinates(data[row].C[j].R)} :
                   q.err = "" /\ q.col = col /\ q.row = row

\* C26: after the overlay pass, every overlay cell with a valid reference
\* (col, row), the only overlay cell with these coordinates, for which no
\* ordinary source cell declared at (col, row) has a value, is the grid cell
\* at (col, row), whatever the positions of the cells in the row's parsed list.
C26_OverlayByDeclaredColumn ==
    phase = "checked" =>
        \E ov \in {OverlayRow(parsed).C} :
            \A k \in 1..Len(ov) :
                \E p \in {CellNameToCoordinates(ov[k].R)} :
                    ( /\ p.err = ""
                      /\ \A m \in 1..Len(ov) :
                            m # k => \E q \in {CellNameToCoordinates(ov[m].R)} :
                                        ~(q.err = "" /\ q.col = p.col /\ q.row = p.row)
                      /\ NoSourceValueAt(WorkRows(parsed), p.col, p.row) )
                        => GridHolds(sheet, p.col, p.row, ov[k])

\* C27: for every parsed row list (row numbers >= 0), also one that begins
\* with two or more rows numbered 0, the grid allocated after the first loop
\* has room for every row the second loop places: checkSheet never ends in
\* an index out of range.
C27_NoOutOfRange == phase # "panic"

(***************************************************************************)
(* Claims about the streaming writer, continued.                           *)
(***************************************************************************)
\* C28: a call of SetRow that returns an error leaves the writer as it was:
\* nothing is appended to the output and sheetWritten is unchanged.
C28_FailedSetRowWritesNothing ==
    [][\A in \in SetRowInputs :
          (SetRow(in[1], in[2], in[3]) /\ last'.err # "") =>
              /\ Stream' = Stream
              /\ sheetWritten' = sheetWritten]_vars

\* the indexes of the tokens with tag t
TagAt(toks, t) == {i \in 1..Len(toks) : toks[i].t = t}

\* C29: once Flush has been called, every column width that SetColWidth
\* accepted is in the output as a col element between the cols start tag and
\* the cols end tag, and these are before the sheetData start tag.
C29_WidthsInFlushedOutput ==
    Flushed =>
        \E out \in {Stream} :
            \A k \in 1..Len(cols) :
                \E i \in 1..Len(out) :
                    /\ out[i] = cols[k]
                    /\ \E a \in TagAt(out, "cols") : a < i
                    /\ \E b \in TagAt(out, "/cols") :
                          /\ i < b
                          /\ \E d \in TagAt(out, "sheetData") : b < d

(***************************************************************************)
(* File.addRels, called from several goroutines on one relationships path. *)
(* A call is a sequence of steps: relsReader and the allocation of a table *)
(* when it returns nil; rels.Lock(); the loop, the append and the Store;   *)
(* the deferred rels.Unlock().  relsReader returns what f.Relationships    *)
(* holds for the path, nil when it holds nothing.                          *)
(***************************************************************************)
MaxRelCalls == 3

\* the tables a path may have before the calls
RelsTables ==
    { InitialRels,
      <<[ID |-> rIdPrefix \o <<"1">>, Type |-> "sharedStrings", Target |-> 0],
        [ID |-> rIdPrefix \o <<"2">>, Type |-> "drawing", Target |-> 0]>> }

RelTypes == {"table", "sharedStrings"}

InitRels ==
    /\ SheetIdle /\ WriterIdle /\ FileIdle /\ ReaderIdle /\ AdjustIdle /\ CodecIdle
    /\ \/ relsHeap = <<>> /\ Relationships = 0
       \/ \E t \in RelsTables :
             relsHeap = <<[Relationships |-> t, lock |-> 0]>> /\ Relationships = 1
    /\ relsPc = [p \in RelCallers |-> "idle"]
    /\ relsArg = [p \in RelCallers |-> NoRelsArg]
    /\ relsLog = <<>>

RelsOthers == <<sheetVars, writerVars, fileVars, readerVars, adjustVars, codecVars>>

\* rels := f.relsReader(relPath); if rels == nil { rels = &xlsxRelationships{} }
relsReader == Relationships

AddRelsCall(p, relType, target) ==
    /\ relsPc[p] = "idle"
    /\ Len(relsLog) + Cardinality({q \in RelCallers : relsPc[q] \in {"lock", "run"}})
          < MaxRelCalls
    /\ \E r \in {relsReader} :
          IF r = 0
          THEN /\ relsHeap' = Append(relsHeap, [Relationships |-> <<>>, lock |-> 0])
               /\ relsArg' = [relsArg EXCEPT ![p] =
                     [rels |-> Len(relsHeap) + 1, relType |-> relType, target |-> target]]
          ELSE /\ relsHeap' = relsHeap
               /\ relsArg' = [relsArg EXCEPT ![p] =
                     [rels |-> r, relType |-> relType, target |-> target]]
    /\ relsPc' = [relsPc EXCEPT ![p] = "lock"]
    /\ UNCHANGED <<Relationships, relsLog, RelsOthers>>

\* rels.Lock()
AddRelsLock(p) ==
    /\ relsPc[p] = "lock"
    /\ relsHeap[relsArg[p].rels].lock = 0
    /\ relsHeap' = [relsHeap EXCEPT ![relsArg[p].rels].lock = p]
    /\ relsPc' = [relsPc EXCEPT ![p] = "run"]
    /\ UNCHANGED <<Relationships, relsArg, relsLog, RelsOthers>>

\* the largest number of an ID of a table
RECURSIVE MaxRelNumber(_, _)
MaxRelNumber(rs, i) ==
    IF i > Len(rs) THEN 0
    ELSE Max(RelNumber(rs[i].ID), MaxRelNumber(rs, i + 1))

\* the loop, and the append and f.Relationships.Store when the loop ends
AddRelsRun(p) ==
    /\ relsPc[p] = "run"
    /\ \E a \in {relsArg[p]} : \E old \in {relsHeap[a.rels].Relationships} :
       \E r \in {addRels(old, a.relType, a.target)} :
          /\ relsHeap' = [relsHeap EXCEPT ![a.rels].Relationships = r.rels]
          /\ Relationships' = IF Len(r.rels) > Len(old) THEN a.rels ELSE Relationships
          /\ relsLog' = Append(relsLog,
                [rID |-> r.rID, added |-> Len(r.rels) > Len(old),
                 relType |-> a.relType, target |-> a.target,
                 max |-> MaxRelNumber(old, 1)])
    /\ relsPc' = [relsPc EXCEPT ![p] = "unlock"]
    /\ UNCHANGED <<relsArg, RelsOthers>>

\* defer rels.Unlock()
AddRelsUnlock(p) ==
    /\ relsPc[p] = "unlock"
    /\ relsHeap' = [relsHeap EXCEPT ![relsArg[p].rels].lock = 0]
    /\ relsPc' = [relsPc EXCEPT ![p] = "idle"]
    /\ UNCHANGED <<Relationships, relsArg, relsLog, RelsOthers>>

NextRels ==
    \E p \in RelCallers :
        \/ \E relType \in RelTypes : AddRelsCall(p, relType, Len(relsLog) + p)
        \/ AddRelsLock(p)
        \/ AddRelsRun(p)
        \/ AddRelsUnlock(p)

SpecRels == InitRels /\ [][NextRels]_vars

\* the table stored for the path
StoredRels == IF Relationships = 0 THEN <<>> ELSE relsHeap[Relationships].Relationships

\* C30: whatever the interleaving of the calls of addRels on one path, the
\* IDs of the stored table are pairwise distinct, the relationship of every
\* call that returned a new ID is in the stored table, and every new ID is
\* one more than the largest ID of the table when it was assigned.
C30_RelsConsistent ==
    \E t \in {StoredRels} :
        /\ \A i, j \in 1..Len(t) : i # j => t[i].ID # t[j].ID
        /\ \A k \in 1..Len(relsLog) :
              relsLog[k].added =>
                  /\ relsLog[k].rID = relsLog[k].max + 1
                  /\ \E i \in 1..Len(t) :
                        /\ t[i].ID = rIdPrefix \o Itoa(relsLog[k].rID)
                        /\ t[i].Type = relsLog[k].relType
                        /\ relsLog[k].relType \notin uniqPart
                              => t[i].Target = relsLog[k].target
====
